---- MODULE Spec2Model ----
(***************************************************************************)
(* A model of the four batch stages of the ANZ insurance / finance lead    *)
(* pipeline: the Collector (company_research.py), the Status Checker       *)
(* (hiring_verification.py), the Contact Finder (contact_enrichment.py)    *)
(* and the Consolidator (data_consolidation.py).  The stages share no      *)
(* runtime state, so each stage has a specification of its own over its    *)
(* own variables; the variables of the other stages stay idle.             *)
(***************************************************************************)
EXTENDS Integers, Sequences, FiniteSets, TLC

VARIABLES
  \* Collector (company_research.py: main)
  sources,        \* what the six source functions return, in main's order
  all_companies,  \* the list main() extends
  raw_csv,        \* data/raw/companies_raw.csv as written
  collected_df,   \* the data frame main() builds
  raw_xlsx,       \* data/raw/companies_raw.xlsx as saved
  cpc,            \* main()'s position
  collect_stdout, \* what the collector printed
  error_log,      \* data/raw/error_log.txt as written
  \* Status Checker (hiring_verification.py: verify_hiring_status)
  vinput,         \* the table load_companies() returned
  companies_df,   \* the table verify_hiring_status mutates in place
  vidx,           \* the row the loop is at
  vpc,            \* the position inside the loop body
  vqueried,       \* the sources queried for the current row, in order
  vreported,      \* per role, whether a queried source reported it for this row
  verified_xlsx,  \* data/processed/companies_hiring_verified.xlsx as saved
  \* Contact Finder (contact_enrichment.py: main, enrich_contacts)
  all_companies_df,     \* the table load_companies() returned
  use_mock,             \* the use_mock argument
  hiring_companies_df,  \* what filter_actively_hiring_companies returned
  executives_df,        \* the contact table being built
  eidx,                 \* the company the loop is at
  epc,                  \* the position inside the loop body
  linkedin_execs,       \* what find_linkedin_executives returned
  website_execs,        \* what find_company_executives returned
  all_execs,            \* the combined candidates of the company
  xidx,                 \* the candidate the inner loop is at
  email_pattern,        \* what discover_email_pattern returned
  \* Consolidator, one row (data_consolidation.py)
  merged_row,           \* a row of the merged frame
  report_row,           \* the row of the report made of it
  rpc,                  \* which of the row functions is next
  \* Consolidator, the tables (data_consolidation.py)
  report_companies_df,  \* top_hiring_companies.xlsx as load_data read it
  report_executives_df, \* executives_contacts.xlsx as load_data read it
  merged_df,            \* what pd.merge returned
  final_df,             \* what prepare_final_dataset returned
  summary_df,           \* what create_summary_data returned
  opportunities_df,     \* final_df with the score and the notes
  top_opportunities,    \* what create_opportunities_content returned
  fpc,                  \* the consolidator's position in main
  final_xlsx,           \* data/final/ANZ_Insurance_Finance_Companies.xlsx as saved
  report_console,       \* what main()'s except branch printed
  report_error_log,     \* the text log file of errors
  \* Start of a stage (load_companies and load_data of the three later scripts)
  script,         \* the script that runs
  disk,           \* the input files that exist
  stdout,         \* what the script printed
  exit_status,    \* the status the process ended with, None while it runs
  written,        \* the output files the run wrote
  lpc,            \* the script's position
  \* Calls of generate_email (contact_enrichment.py)
  email_args,     \* the arguments: first_name, last_name, domain, pattern
  emails,         \* what the calls made with them returned, in order
  \* Calls of check_company_careers_page (hiring_verification.py)
  careers_args,   \* the arguments: company_name, company_url
  careers_calls   \* per call made with them, its two draws and what it returned

collectVars ==
  <<sources, all_companies, raw_csv, collected_df, raw_xlsx, cpc, collect_stdout, error_log>>
verifyVars == <<vinput, companies_df, vidx, vpc, vqueried, vreported, verified_xlsx>>
contactVars ==
  <<all_companies_df, use_mock, hiring_companies_df, executives_df, eidx, epc,
    linkedin_execs, website_execs, all_execs, xidx, email_pattern>>
rowVars == <<merged_row, report_row, rpc>>
reportOutputs == <<final_xlsx, report_console, report_error_log>>
reportVars == <<report_companies_df, report_executives_df, merged_df, final_df, summary_df,
                opportunities_df, top_opportunities, fpc, reportOutputs>>
loadVars == <<script, disk, stdout, exit_status, written, lpc>>
emailVars == <<email_args, emails>>
careersVars == <<careers_args, careers_calls>>
vars == <<collectVars, verifyVars, contactVars, rowVars, reportVars, loadVars, emailVars,
         careersVars>>
otherThanCollect == <<verifyVars, contactVars, rowVars, reportVars, loadVars, emailVars,
   careersVars>>
otherThanVerify == <<collectVars, contactVars, rowVars, reportVars, loadVars, emailVars,
   careersVars>>
otherThanContact == <<collectVars, verifyVars, rowVars, reportVars, loadVars, emailVars,
   careersVars>>
otherThanRow == <<collectVars, verifyVars, contactVars, reportVars, loadVars, emailVars,
   careersVars>>
otherThanReport == <<collectVars, verifyVars, contactVars, rowVars, loadVars, emailVars,
   careersVars>>
otherThanLoad == <<collectVars, verifyVars, contactVars, rowVars, reportVars, emailVars,
   careersVars>>
otherThanEmail == <<collectVars, verifyVars, contactVars, rowVars, reportVars, loadVars,
   careersVars>>
otherThanCareers == <<collectVars, verifyVars, contactVars, rowVars, reportVars, loadVars,
   emailVars>>

(***************************************************************************)
(* Bounds of the model.                                                    *)
(***************************************************************************)
MaxCompanies == 3
MaxRows == 2
MaxHiring == 1
MaxFound == 2
MaxEntities == 2
MaxContacts == 2

(***************************************************************************)
(* Values shared by the stages.                                            *)
(***************************************************************************)
\* calculate_quality pads the stars to this many.
StarScale == 5

\* create_opportunities_content keeps this many rows.
TopN == 10

\* filter_actively_hiring_companies keeps at most this many companies.
FilterLimit == 100

\* The missing value of a numeric column.
NaN == -1

None == "<None>"
NoFile == "<no file>"

Min(a, b) == IF a < b THEN a ELSE b
Max(a, b) == IF a > b THEN a ELSE b

BSeq(S, n) == UNION {[1..m -> S] : m \in 0..n}

\* The rows of df at the indices K, in df's order.
RowsAt(df, K) ==
  [n \in 1..Cardinality(K) |-> df[CHOOSE i \in K : Cardinality({j \in K : j <= i}) = n]]

RECURSIVE Concat(_, _)
Concat(lists, k) ==
  IF k = 0 THEN <<>> ELSE Concat(lists, k - 1) \o lists[k]

(***************************************************************************)
(* Collector: the static catalogue.                                        *)
(***************************************************************************)
search_asx_companies ==
  <<
     [company_name |-> "Commonwealth Bank", industry |-> "Finance", country |-> "Australia", data_source |-> "ASX", company_website |-> "commbank.com.au"],
     [company_name |-> "Westpac Banking Corporation", industry |-> "Finance", country |-> "Australia", data_source |-> "ASX", company_website |-> "westpac.com.au"],
     [company_name |-> "National Australia Bank", industry |-> "Finance", country |-> "Australia", data_source |-> "ASX", company_website |-> "nab.com.au"],
     [company_name |-> "ANZ Banking Group", industry |-> "Finance", country |-> "Australia", data_source |-> "ASX", company_website |-> "anz.com.au"],
     [company_name |-> "Macquarie Group", industry |-> "Finance", country |-> "Australia", data_source |-> "ASX", company_website |-> "macquarie.com"],
     [company_name |-> "QBE Insurance Group", industry |-> "Insurance", country |-> "Australia", data_source |-> "ASX", company_website |-> "qbe.com"],
     [company_name |-> "Insurance Australia Group", industry |-> "Insurance", country |-> "Australia", data_source |-> "ASX", company_website |-> "iag.com.au"],
     [company_name |-> "Suncorp Group", industry |-> "Both", country |-> "Australia", data_source |-> "ASX", company_website |-> "suncorp.com.au"],
     [company_name |-> "AMP Limited", industry |-> "Both", country |-> "Australia", data_source |-> "ASX", company_website |-> "amp.com.au"],
     [company_name |-> "Medibank Private", industry |-> "Insurance", country |-> "Australia", data_source |-> "ASX", company_website |-> "medibank.com.au"]
  >>

search_nzx_companies ==
  <<
     [company_name |-> "Heartland Group Holdings", industry |-> "Finance", country |-> "New Zealand", data_source |-> "NZX", company_website |-> "heartland.co.nz"],
     [company_name |-> "Tower Limited", industry |-> "Insurance", country |-> "New Zealand", data_source |-> "NZX", company_website |-> "tower.co.nz"],
     [company_name |-> "Westpac Banking Corporation", industry |-> "Finance", country |-> "New Zealand", data_source |-> "NZX", company_website |-> "westpac.co.nz"],
     [company_name |-> "ANZ Bank New Zealand", industry |-> "Finance", country |-> "New Zealand", data_source |-> "NZX", company_website |-> "anz.co.nz"],
     [company_name |-> "Kiwibank", industry |-> "Finance", country |-> "New Zealand", data_source |-> "NZX", company_website |-> "kiwibank.co.nz"]
  >>

get_sample_australia_finance_companies ==
  <<
     [company_name |-> "Commonwealth Bank of Australia", industry |-> "Finance", country |-> "Australia", data_source |-> "Sample Data", company_website |-> "commbank.com.au"],
     [company_name |-> "Westpac Banking Corporation", industry |-> "Finance", country |-> "Australia", data_source |-> "Sample Data", company_website |-> "westpac.com.au"],
     [company_name |-> "National Australia Bank", industry |-> "Finance", country |-> "Australia", data_source |-> "Sample Data", company_website |-> "nab.com.au"],
     [company_name |-> "Australia and New Zealand Banking Group", industry |-> "Finance", country |-> "Australia", data_source |-> "Sample Data", company_website |-> "anz.com.au"],
     [company_name |-> "Macquarie Group", industry |-> "Finance", country |-> "Australia", data_source |-> "Sample Data", company_website |-> "macquarie.com"],
     [company_name |-> "Suncorp Group", industry |-> "Finance", country |-> "Australia", data_source |-> "Sample Data", company_website |-> "suncorp.com.au"],
     [company_name |-> "Bank of Queensland", industry |-> "Finance", country |-> "Australia", data_source |-> "Sample Data", company_website |-> "boq.com.au"],
     [company_name |-> "Bendigo and Adelaide Bank", industry |-> "Finance", country |-> "Australia", data_source |-> "Sample Data", company_website |-> "bendigobank.com.au"],
     [company_name |-> "AMP Limited", industry |-> "Finance", country |-> "Australia", data_source |-> "Sample Data", company_website |-> "amp.com.au"],
     [company_name |-> "Judo Bank", industry |-> "Finance", country |-> "Australia", data_source |-> "Sample Data", company_website |-> "judo.bank"],
     [company_name |-> "Tyro Payments", industry |-> "Finance", country |-> "Australia", data_source |-> "Sample Data", company_website |-> "tyro.com"],
     [company_name |-> "MyState Limited", industry |-> "Finance", country |-> "Australia", data_source |-> "Sample Data", company_website |-> "mystate.com.au"],
     [company_name |-> "Xinja Bank", industry |-> "Finance", country |-> "Australia", data_source |-> "Sample Data", company_website |-> "xinja.com.au"],
     [company_name |-> "86 400", industry |-> "Finance", country |-> "Australia", data_source |-> "Sample Data", company_website |-> "86400.com.au"],
     [company_name |-> "Volt Bank", industry |-> "Finance", country |-> "Australia", data_source |-> "Sample Data", company_website |-> "voltbank.com.au"],
     [company_name |-> "Heritage Bank", industry |-> "Finance", country |-> "Australia", data_source |-> "Sample Data", company_website |-> "heritage.com.au"],
     [company_name |-> "Teachers Mutual Bank", industry |-> "Finance", country |-> "Australia", data_source |-> "Sample Data", company_website |-> "tmbank.com.au"],
     [company_name |-> "Greater Bank", industry |-> "Finance", country |-> "Australia", data_source |-> "Sample Data", company_website |-> "greater.com.au"],
     [company_name |-> "IMB Bank", industry |-> "Finance", country |-> "Australia", data_source |-> "Sample Data", company_website |-> "imb.com.au"],
     [company_name |-> "Beyond Bank Australia", industry |-> "Finance", country |-> "Australia", data_source |-> "Sample Data", company_website |-> "beyondbank.com.au"]
  >>

get_sample_australia_insurance_companies ==
  <<
     [company_name |-> "QBE Insurance Group", industry |-> "Insurance", country |-> "Australia", data_source |-> "Sample Data", company_website |-> "qbe.com"],
     [company_name |-> "Insurance Australia Group", industry |-> "Insurance", country |-> "Australia", data_source |-> "Sample Data", company_website |-> "iag.com.au"],
     [company_name |-> "Suncorp Insurance", industry |-> "Insurance", country |-> "Australia", data_source |-> "Sample Data", company_website |-> "suncorp.com.au"],
     [company_name |-> "Allianz Australia", industry |-> "Insurance", country |-> "Australia", data_source |-> "Sample Data", company_website |-> "allianz.com.au"],
     [company_name |-> "Youi Insurance", industry |-> "Insurance", country |-> "Australia", data_source |-> "Sample Data", company_website |-> "youi.com.au"],
     [company_name |-> "Budget Direct", industry |-> "Insurance", country |-> "Australia", data_source |-> "Sample Data", company_website |-> "budgetdirect.com.au"],
     [company_name |-> "AAMI Insurance", industry |-> "Insurance", country |-> "Australia", data_source |-> "Sample Data", company_website |-> "aami.com.au"],
     [company_name |-> "NRMA Insurance", industry |-> "Insurance", country |-> "Australia", data_source |-> "Sample Data", company_website |-> "nrma.com.au"],
     [company_name |-> "Medibank Private", industry |-> "Insurance", country |-> "Australia", data_source |-> "Sample Data", company_website |-> "medibank.com.au"],
     [company_name |-> "Bupa Australia", industry |-> "Insurance", country |-> "Australia", data_source |-> "Sample Data", company_website |-> "bupa.com.au"],
     [company_name |-> "HCF", industry |-> "Insurance", country |-> "Australia", data_source |-> "Sample Data", company_website |-> "hcf.com.au"],
     [company_name |-> "NIB Health Funds", industry |-> "Insurance", country |-> "Australia", data_source |-> "Sample Data", company_website |-> "nib.com.au"],
     [company_name |-> "AIA Australia", industry |-> "Insurance", country |-> "Australia", data_source |-> "Sample Data", company_website |-> "aia.com.au"],
     [company_name |-> "TAL Life Limited", industry |-> "Insurance", country |-> "Australia", data_source |-> "Sample Data", company_website |-> "tal.com.au"],
     [company_name |-> "Zurich Australia", industry |-> "Insurance", country |-> "Australia", data_source |-> "Sample Data", company_website |-> "zurich.com.au"],
     [company_name |-> "MetLife Insurance Limited", industry |-> "Insurance", country |-> "Australia", data_source |-> "Sample Data", company_website |-> "metlife.com.au"],
     [company_name |-> "Chubb Insurance Australia", industry |-> "Insurance", country |-> "Australia", data_source |-> "Sample Data", company_website |-> "chubb.com/au"],
     [company_name |-> "RACQ Insurance", industry |-> "Insurance", country |-> "Australia", data_source |-> "Sample Data", company_website |-> "racq.com.au/insurance"],
     [company_name |-> "RACV Insurance", industry |-> "Insurance", country |-> "Australia", data_source |-> "Sample Data", company_website |-> "racv.com.au/insurance"],
     [company_name |-> "Hollard Insurance", industry |-> "Insurance", country |-> "Australia", data_source |-> "Sample Data", company_website |-> "hollard.com.au"]
  >>

get_sample_nz_finance_companies ==
  <<
     [company_name |-> "ANZ Bank New Zealand", industry |-> "Finance", country |-> "New Zealand", data_source |-> "Sample Data", company_website |-> "anz.co.nz"],
     [company_name |-> "Westpac New Zealand", industry |-> "Finance", country |-> "New Zealand", data_source |-> "Sample Data", company_website |-> "westpac.co.nz"],
     [company_name |-> "Bank of New Zealand", industry |-> "Finance", country |-> "New Zealand", data_source |-> "Sample Data", company_website |-> "bnz.co.nz"],
     [company_name |-> "ASB Bank", industry |-> "Finance", country |-> "New Zealand", data_source |-> "Sample Data", company_website |-> "asb.co.nz"],
     [company_name |-> "Kiwibank", industry |-> "Finance", country |-> "New Zealand", data_source |-> "Sample Data", company_website |-> "kiwibank.co.nz"],
     [company_name |-> "TSB Bank", industry |-> "Finance", country |-> "New Zealand", data_source |-> "Sample Data", company_website |-> "tsb.co.nz"],
     [company_name |-> "Heartland Bank", industry |-> "Finance", country |-> "New Zealand", data_source |-> "Sample Data", company_website |-> "heartland.co.nz"],
     [company_name |-> "The Co-operative Bank", industry |-> "Finance", country |-> "New Zealand", data_source |-> "Sample Data", company_website |-> "co-operativebank.co.nz"],
     [company_name |-> "SBS Bank", industry |-> "Finance", country |-> "New Zealand", data_source |-> "Sample Data", company_website |-> "sbsbank.co.nz"],
     [company_name |-> "Rabobank New Zealand", industry |-> "Finance", country |-> "New Zealand", data_source |-> "Sample Data", company_website |-> "rabobank.co.nz"],
     [company_name |-> "HSBC New Zealand", industry |-> "Finance", country |-> "New Zealand", data_source |-> "Sample Data", company_website |-> "hsbc.co.nz"],
     [company_name |-> "China Construction Bank NZ", industry |-> "Finance", country |-> "New Zealand", data_source |-> "Sample Data", company_website |-> "nz.ccb.com"],
     [company_name |-> "Industrial and Commercial Bank of China NZ", industry |-> "Finance", country |-> "New Zealand", data_source |-> "Sample Data", company_website |-> "icbcnz.com"],
     [company_name |-> "Bank of China New Zealand", industry |-> "Finance", country |-> "New Zealand", data_source |-> "Sample Data", company_website |-> "bankofchina.com/nz"],
     [company_name |-> "Credit Union Baywide", industry |-> "Finance", country |-> "New Zealand", data_source |-> "Sample Data", company_website |-> "nzcubaywide.co.nz"]
  >>

get_sample_nz_insurance_companies ==
  <<
     [company_name |-> "AA Insurance", industry |-> "Insurance", country |-> "New Zealand", data_source |-> "Sample Data", company_website |-> "aainsurance.co.nz"],
     [company_name |-> "Tower Insurance", industry |-> "Insurance", country |-> "New Zealand", data_source |-> "Sample Data", company_website |-> "tower.co.nz"],
     [company_name |-> "IAG New Zealand", industry |-> "Insurance", country |-> "New Zealand", data_source |-> "Sample Data", company_website |-> "iag.co.nz"],
     [company_name |-> "FMG Insurance", industry |-> "Insurance", country |-> "New Zealand", data_source |-> "Sample Data", company_website |-> "fmg.co.nz"],
     [company_name |-> "AMI Insurance", industry |-> "Insurance", country |-> "New Zealand", data_source |-> "Sample Data", company_website |-> "ami.co.nz"],
     [company_name |-> "State Insurance", industry |-> "Insurance", country |-> "New Zealand", data_source |-> "Sample Data", company_website |-> "state.co.nz"],
     [company_name |-> "Medical Assurance Society", industry |-> "Insurance", country |-> "New Zealand", data_source |-> "Sample Data", company_website |-> "mas.co.nz"],
     [company_name |-> "Vero Insurance", industry |-> "Insurance", country |-> "New Zealand", data_source |-> "Sample Data", company_website |-> "vero.co.nz"],
     [company_name |-> "Southern Cross Health Society", industry |-> "Insurance", country |-> "New Zealand", data_source |-> "Sample Data", company_website |-> "southerncross.co.nz"],
     [company_name |-> "AIA New Zealand", industry |-> "Insurance", country |-> "New Zealand", data_source |-> "Sample Data", company_website |-> "aia.co.nz"],
     [company_name |-> "Partners Life", industry |-> "Insurance", country |-> "New Zealand", data_source |-> "Sample Data", company_website |-> "partnerslife.co.nz"],
     [company_name |-> "Fidelity Life", industry |-> "Insurance", country |-> "New Zealand", data_source |-> "Sample Data", company_website |-> "fidelitylife.co.nz"],
     [company_name |-> "Cigna Life Insurance", industry |-> "Insurance", country |-> "New Zealand", data_source |-> "Sample Data", company_website |-> "cigna.co.nz"],
     [company_name |-> "Asteron Life", industry |-> "Insurance", country |-> "New Zealand", data_source |-> "Sample Data", company_website |-> "asteronlife.co.nz"],
     [company_name |-> "Accuro Health Insurance", industry |-> "Insurance", country |-> "New Zealand", data_source |-> "Sample Data", company_website |-> "accuro.co.nz"]
  >>

NumSources == 6

\* main() extends all_companies with the six lists in this order.
RealSources ==
  <<search_asx_companies, search_nzx_companies,
    get_sample_australia_finance_companies,
    get_sample_australia_insurance_companies,
    get_sample_nz_finance_companies,
    get_sample_nz_insurance_companies>>

\* The labels each source function gives its entries.
SourceLabel == <<"ASX", "NZX", "Sample Data", "Sample Data", "Sample Data", "Sample Data">>
SourceCountry ==
  <<"Australia", "New Zealand", "Australia", "Australia", "New Zealand", "New Zealand">>
SourceIndustry == <<"Both", "Finance", "Finance", "Insurance", "Finance", "Insurance">>

SampleNames == {"Westpac Banking Corporation", "Suncorp Group", "Kiwibank"}

\* An entry of source k for company n, shaped as the literals are.
SourceEntry(n, k) ==
  [company_name |-> n, industry |-> SourceIndustry[k], country |-> SourceCountry[k],
   data_source |-> SourceLabel[k],
   company_website |-> IF SourceCountry[k] = "Australia" THEN n \o ".com.au"
                       ELSE n \o ".co.nz"]

\* The six lists made of the names flat, the i-th name listed by source owner[i].
SourcesOf(flat, owner) ==
  [k \in 1..NumSources |->
     LET idx == {i \in 1..Len(flat) : owner[i] = k}
         lo  == CHOOSE i \in idx : \A j \in idx : i <= j
     IN  IF idx = {} THEN <<>>
         ELSE [j \in 1..Cardinality(idx) |-> SourceEntry(flat[lo + j - 1], k)]]

\* Catalogues of one to MaxCompanies entries over SampleNames, and the shipped one.
Catalogues ==
  {RealSources} \cup
  UNION {{SourcesOf(flat, owner) :
            owner \in {o \in [1..Len(flat) -> 1..NumSources] :
                         \A i, j \in 1..Len(flat) : i <= j => o[i] <= o[j]}} :
         flat \in BSeq(SampleNames, MaxCompanies) \ {<<>>}}

\* A deduplication that keeps the last row of each name (keep='last').
LastOfName(df) ==
  {i \in 1..Len(df) : \A j \in (i + 1)..Len(df) : df[j].company_name # df[i].company_name}

\* pandas.DataFrame.drop_duplicates(subset=['company_name']), keep='first': the
\* rows whose name no earlier row has, in their order.
FirstOfName(df) ==
  {i \in 1..Len(df) : \A j \in 1..(i - 1) : df[j].company_name # df[i].company_name}

\* A deduplication that numbers the kept rows anew.
drop_duplicates_renumbered(df) ==
  LET kept == RowsAt(df, FirstOfName(df))
  IN  [i \in 1..Len(kept) |-> [kept[i] EXCEPT !.company_id = i]]

\* main(), line 262: drop_duplicates(subset=['company_name']).
drop_duplicates(df) == RowsAt(df, FirstOfName(df))

\* main(), lines 252-259: the frame of all entries, ids 1..len, default flags.
build_frame(companies) ==
  [i \in 1..Len(companies) |->
     [company_id |-> i,
      company_name |-> companies[i].company_name,
      industry |-> companies[i].industry,
      country |-> companies[i].country,
      company_size |-> None,
      annual_revenue |-> None,
      company_website |-> companies[i].company_website,
      linkedin_url |-> None,
      actively_hiring |-> "Unknown",
      hiring_devops |-> "Unknown",
      hiring_developers |-> "Unknown",
      data_source |-> companies[i].data_source,
      last_verified |-> "today"]]

\* company_name.lower().replace(' ', '') on the names of the catalogue (line 188).
website_name(company_name) ==
  CASE company_name = "Commonwealth Bank of Australia" -> "commonwealthbankofaustralia"
    [] company_name = "Westpac Banking Corporation" -> "westpacbankingcorporation"
    [] company_name = "National Australia Bank" -> "nationalaustraliabank"
    [] company_name = "Australia and New Zealand Banking Group" -> "australiaandnewzealandbankinggroup"
    [] company_name = "Macquarie Group" -> "macquariegroup"
    [] company_name = "Suncorp Group" -> "suncorpgroup"
    [] company_name = "Bank of Queensland" -> "bankofqueensland"
    [] company_name = "Bendigo and Adelaide Bank" -> "bendigoandadelaidebank"
    [] company_name = "AMP Limited" -> "amplimited"
    [] company_name = "Judo Bank" -> "judobank"
    [] company_name = "Tyro Payments" -> "tyropayments"
    [] company_name = "MyState Limited" -> "mystatelimited"
    [] company_name = "Xinja Bank" -> "xinjabank"
    [] company_name = "86 400" -> "86400"
    [] company_name = "Volt Bank" -> "voltbank"
    [] company_name = "Heritage Bank" -> "heritagebank"
    [] company_name = "Teachers Mutual Bank" -> "teachersmutualbank"
    [] company_name = "Greater Bank" -> "greaterbank"
    [] company_name = "IMB Bank" -> "imbbank"
    [] company_name = "Beyond Bank Australia" -> "beyondbankaustralia"
    [] company_name = "QBE Insurance Group" -> "qbeinsurancegroup"
    [] company_name = "Insurance Australia Group" -> "insuranceaustraliagroup"
    [] company_name = "Suncorp Insurance" -> "suncorpinsurance"
    [] company_name = "Allianz Australia" -> "allianzaustralia"
    [] company_name = "Youi Insurance" -> "youiinsurance"
    [] company_name = "Budget Direct" -> "budgetdirect"
    [] company_name = "AAMI Insurance" -> "aamiinsurance"
    [] company_name = "NRMA Insurance" -> "nrmainsurance"
    [] company_name = "Medibank Private" -> "medibankprivate"
    [] company_name = "Bupa Australia" -> "bupaaustralia"
    [] company_name = "HCF" -> "hcf"
    [] company_name = "NIB Health Funds" -> "nibhealthfunds"
    [] company_name = "AIA Australia" -> "aiaaustralia"
    [] company_name = "TAL Life Limited" -> "tallifelimited"
    [] company_name = "Zurich Australia" -> "zurichaustralia"
    [] company_name = "MetLife Insurance Limited" -> "metlifeinsurancelimited"
    [] company_name = "Chubb Insurance Australia" -> "chubbinsuranceaustralia"
    [] company_name = "RACQ Insurance" -> "racqinsurance"
    [] company_name = "RACV Insurance" -> "racvinsurance"
    [] company_name = "Hollard Insurance" -> "hollardinsurance"
    [] company_name = "ANZ Bank New Zealand" -> "anzbanknewzealand"
    [] company_name = "Westpac New Zealand" -> "westpacnewzealand"
    [] company_name = "Bank of New Zealand" -> "bankofnewzealand"
    [] company_name = "ASB Bank" -> "asbbank"
    [] company_name = "Kiwibank" -> "kiwibank"
    [] company_name = "TSB Bank" -> "tsbbank"
    [] company_name = "Heartland Bank" -> "heartlandbank"
    [] company_name = "The Co-operative Bank" -> "theco-operativebank"
    [] company_name = "SBS Bank" -> "sbsbank"
    [] company_name = "Rabobank New Zealand" -> "rabobanknewzealand"
    [] company_name = "HSBC New Zealand" -> "hsbcnewzealand"
    [] company_name = "China Construction Bank NZ" -> "chinaconstructionbanknz"
    [] company_name = "Industrial and Commercial Bank of China NZ" -> "industrialandcommercialbankofchinanz"
    [] company_name = "Bank of China New Zealand" -> "bankofchinanewzealand"
    [] company_name = "Credit Union Baywide" -> "creditunionbaywide"
    [] company_name = "AA Insurance" -> "aainsurance"
    [] company_name = "Tower Insurance" -> "towerinsurance"
    [] company_name = "IAG New Zealand" -> "iagnewzealand"
    [] company_name = "FMG Insurance" -> "fmginsurance"
    [] company_name = "AMI Insurance" -> "amiinsurance"
    [] company_name = "State Insurance" -> "stateinsurance"
    [] company_name = "Medical Assurance Society" -> "medicalassurancesociety"
    [] company_name = "Vero Insurance" -> "veroinsurance"
    [] company_name = "Southern Cross Health Society" -> "southerncrosshealthsociety"
    [] company_name = "AIA New Zealand" -> "aianewzealand"
    [] company_name = "Partners Life" -> "partnerslife"
    [] company_name = "Fidelity Life" -> "fidelitylife"
    [] company_name = "Cigna Life Insurance" -> "cignalifeinsurance"
    [] company_name = "Asteron Life" -> "asteronlife"
    [] company_name = "Accuro Health Insurance" -> "accurohealthinsurance"
    [] company_name = "Commonwealth Bank" -> "commonwealthbank"
    [] company_name = "ANZ Banking Group" -> "anzbankinggroup"
    [] company_name = "Heartland Group Holdings" -> "heartlandgroupholdings"
    [] company_name = "Tower Limited" -> "towerlimited"

\* company_name.lower().replace(' ', '-').replace('&', 'and') on the names of the
\* catalogue (line 206).
formatted_name(company_name) ==
  CASE company_name = "Commonwealth Bank of Australia" -> "commonwealth-bank-of-australia"
    [] company_name = "Westpac Banking Corporation" -> "westpac-banking-corporation"
    [] company_name = "National Australia Bank" -> "national-australia-bank"
    [] company_name = "Australia and New Zealand Banking Group" -> "australia-and-new-zealand-banking-group"
    [] company_name = "Macquarie Group" -> "macquarie-group"
    [] company_name = "Suncorp Group" -> "suncorp-group"
    [] company_name = "Bank of Queensland" -> "bank-of-queensland"
    [] company_name = "Bendigo and Adelaide Bank" -> "bendigo-and-adelaide-bank"
    [] company_name = "AMP Limited" -> "amp-limited"
    [] company_name = "Judo Bank" -> "judo-bank"
    [] company_name = "Tyro Payments" -> "tyro-payments"
    [] company_name = "MyState Limited" -> "mystate-limited"
    [] company_name = "Xinja Bank" -> "xinja-bank"
    [] company_name = "86 400" -> "86-400"
    [] company_name = "Volt Bank" -> "volt-bank"
    [] company_name = "Heritage Bank" -> "heritage-bank"
    [] company_name = "Teachers Mutual Bank" -> "teachers-mutual-bank"
    [] company_name = "Greater Bank" -> "greater-bank"
    [] company_name = "IMB Bank" -> "imb-bank"
    [] company_name = "Beyond Bank Australia" -> "beyond-bank-australia"
    [] company_name = "QBE Insurance Group" -> "qbe-insurance-group"
    [] company_name = "Insurance Australia Group" -> "insurance-australia-group"
    [] company_name = "Suncorp Insurance" -> "suncorp-insurance"
    [] company_name = "Allianz Australia" -> "allianz-australia"
    [] company_name = "Youi Insurance" -> "youi-insurance"
    [] company_name = "Budget Direct" -> "budget-direct"
    [] company_name = "AAMI Insurance" -> "aami-insurance"
    [] company_name = "NRMA Insurance" -> "nrma-insurance"
    [] company_name = "Medibank Private" -> "medibank-private"
    [] company_name = "Bupa Australia" -> "bupa-australia"
    [] company_name = "HCF" -> "hcf"
    [] company_name = "NIB Health Funds" -> "nib-health-funds"
    [] company_name = "AIA Australia" -> "aia-australia"
    [] company_name = "TAL Life Limited" -> "tal-life-limited"
    [] company_name = "Zurich Australia" -> "zurich-australia"
    [] company_name = "MetLife Insurance Limited" -> "metlife-insurance-limited"
    [] company_name = "Chubb Insurance Australia" -> "chubb-insurance-australia"
    [] company_name = "RACQ Insurance" -> "racq-insurance"
    [] company_name = "RACV Insurance" -> "racv-insurance"
    [] company_name = "Hollard Insurance" -> "hollard-insurance"
    [] company_name = "ANZ Bank New Zealand" -> "anz-bank-new-zealand"
    [] company_name = "Westpac New Zealand" -> "westpac-new-zealand"
    [] company_name = "Bank of New Zealand" -> "bank-of-new-zealand"
    [] company_name = "ASB Bank" -> "asb-bank"
    [] company_name = "Kiwibank" -> "kiwibank"
    [] company_name = "TSB Bank" -> "tsb-bank"
    [] company_name = "Heartland Bank" -> "heartland-bank"
    [] company_name = "The Co-operative Bank" -> "the-co-operative-bank"
    [] company_name = "SBS Bank" -> "sbs-bank"
    [] company_name = "Rabobank New Zealand" -> "rabobank-new-zealand"
    [] company_name = "HSBC New Zealand" -> "hsbc-new-zealand"
    [] company_name = "China Construction Bank NZ" -> "china-construction-bank-nz"
    [] company_name = "Industrial and Commercial Bank of China NZ" -> "industrial-and-commercial-bank-of-china-nz"
    [] company_name = "Bank of China New Zealand" -> "bank-of-china-new-zealand"
    [] company_name = "Credit Union Baywide" -> "credit-union-baywide"
    [] company_name = "AA Insurance" -> "aa-insurance"
    [] company_name = "Tower Insurance" -> "tower-insurance"
    [] company_name = "IAG New Zealand" -> "iag-new-zealand"
    [] company_name = "FMG Insurance" -> "fmg-insurance"
    [] company_name = "AMI Insurance" -> "ami-insurance"
    [] company_name = "State Insurance" -> "state-insurance"
    [] company_name = "Medical Assurance Society" -> "medical-assurance-society"
    [] company_name = "Vero Insurance" -> "vero-insurance"
    [] company_name = "Southern Cross Health Society" -> "southern-cross-health-society"
    [] company_name = "AIA New Zealand" -> "aia-new-zealand"
    [] company_name = "Partners Life" -> "partners-life"
    [] company_name = "Fidelity Life" -> "fidelity-life"
    [] company_name = "Cigna Life Insurance" -> "cigna-life-insurance"
    [] company_name = "Asteron Life" -> "asteron-life"
    [] company_name = "Accuro Health Insurance" -> "accuro-health-insurance"
    [] company_name = "Commonwealth Bank" -> "commonwealth-bank"
    [] company_name = "ANZ Banking Group" -> "anz-banking-group"
    [] company_name = "Heartland Group Holdings" -> "heartland-group-holdings"
    [] company_name = "Tower Limited" -> "tower-limited"

\* enrich_with_company_websites, lines 177-193.
enrich_with_company_websites(df) ==
  [i \in 1..Len(df) |->
     IF df[i].company_website = None
     THEN [df[i] EXCEPT !.company_website =
             "https://www." \o website_name(df[i].company_name) \o ".com"]
     ELSE df[i]]

\* enrich_with_linkedin, lines 195-211.
enrich_with_linkedin(df) ==
  [i \in 1..Len(df) |->
     IF df[i].linkedin_url = None
     THEN [df[i] EXCEPT !.linkedin_url =
             "https://www.linkedin.com/company/" \o formatted_name(df[i].company_name)]
     ELSE df[i]]

CollectStart ==
  /\ sources \in Catalogues
  /\ all_companies = <<>>
  /\ raw_csv = NoFile
  /\ collected_df = <<>>
  /\ raw_xlsx = NoFile
  /\ cpc = "gather"
  /\ collect_stdout = <<>>
  /\ error_log = NoFile

\* write_to_csv, lines 214-230: the entries as they are, under the keys of the
\* first one.
write_to_csv(data) ==
  [i \in 1..Len(data) |-> [k \in DOMAIN data[1] |-> data[i][k]]]

\* main(), lines 236-248: concatenate the six lists and write them as they are.
Gather ==
  /\ cpc = "gather"
  /\ all_companies' = Concat(sources, NumSources)
  /\ raw_csv' = write_to_csv(all_companies')
  /\ collect_stdout' =
       Append(collect_stdout, "Successfully wrote data to data/raw/companies_raw.csv")
  /\ cpc' = "frame"
  /\ UNCHANGED <<sources, collected_df, raw_xlsx, error_log>>
  /\ UNCHANGED otherThanCollect

\* Lines 236-248 when open() or the writer raises in write_to_csv: lines 228-230
\* print the error and return False, and main() goes on.
GatherWriteFails ==
  /\ cpc = "gather"
  /\ all_companies' = Concat(sources, NumSources)
  /\ collect_stdout' =
       Append(collect_stdout, "Error writing to CSV data/raw/companies_raw.csv")
  /\ cpc' = "frame"
  /\ UNCHANGED <<sources, raw_csv, collected_df, raw_xlsx, error_log>>
  /\ UNCHANGED otherThanCollect

\* main(), lines 252-259.
BuildFrame ==
  /\ cpc = "frame"
  /\ collected_df' = build_frame(all_companies)
  /\ cpc' = "dedup"
  /\ UNCHANGED <<sources, all_companies, raw_csv, raw_xlsx, collect_stdout, error_log>>
  /\ UNCHANGED otherThanCollect

\* main(), line 262.
DropDuplicates ==
  /\ cpc = "dedup"
  /\ collected_df' = drop_duplicates(collected_df)
  /\ cpc' = "enrich"
  /\ UNCHANGED <<sources, all_companies, raw_csv, raw_xlsx, collect_stdout, error_log>>
  /\ UNCHANGED otherThanCollect

\* main(), lines 264-290: fill the missing columns and save.
EnrichAndSave ==
  /\ cpc = "enrich"
  /\ collected_df' = enrich_with_linkedin(enrich_with_company_websites(collected_df))
  /\ raw_xlsx' = collected_df'
  /\ collect_stdout' =
       collect_stdout \o <<"Successfully saved data to data/raw/companies_raw.xlsx",
                            "Successfully saved data to data/raw/companies_processed.csv">>
  /\ cpc' = "done"
  /\ UNCHANGED <<sources, all_companies, raw_csv, error_log>>
  /\ UNCHANGED otherThanCollect

\* Lines 264-297 when to_excel raises: the except branch prints the error and
\* writes it to data/raw/error_log.txt.
SaveExcelFails ==
  /\ cpc = "enrich"
  /\ collected_df' = enrich_with_linkedin(enrich_with_company_websites(collected_df))
  /\ collect_stdout' = Append(collect_stdout, "Error processing dataframe")
  /\ error_log' = "Error occurred"
  /\ cpc' = "failed"
  /\ UNCHANGED <<sources, all_companies, raw_csv, raw_xlsx>>
  /\ UNCHANGED otherThanCollect

\* Lines 264-297 when to_csv raises after the Excel file was saved.
SaveCsvFails ==
  /\ cpc = "enrich"
  /\ collected_df' = enrich_with_linkedin(enrich_with_company_websites(collected_df))
  /\ raw_xlsx' = collected_df'
  /\ collect_stdout' =
       collect_stdout \o <<"Successfully saved data to data/raw/companies_raw.xlsx",
                            "Error processing dataframe">>
  /\ error_log' = "Error occurred"
  /\ cpc' = "failed"
  /\ UNCHANGED <<sources, all_companies, raw_csv>>
  /\ UNCHANGED otherThanCollect

CollectIdle ==
  /\ sources = <<>>
  /\ all_companies = <<>>
  /\ raw_csv = NoFile
  /\ collected_df = <<>>
  /\ raw_xlsx = NoFile
  /\ cpc = "idle"
  /\ collect_stdout = <<>>
  /\ error_log = NoFile

(***************************************************************************)
(* Status Checker: verify_hiring_status (hiring_verification.py).          *)
(***************************************************************************)

\* job_keywords of check_company_careers_page.
job_keywords ==
  [devops |-> {"devops", "dev ops", "site reliability", "sre", "platform engineer",
               "infrastructure engineer"},
   software_dev |-> {"software developer", "software engineer", "programmer",
                     "web developer", "frontend", "backend", "full stack"}]

\* The keywords of job_keywords that occur in the lower-cased company name.
NameKeywords(company_name) ==
  CASE company_name = "Suncorp Group" -> {}
    [] company_name = "Kiwibank" -> {}
    [] company_name = "Westpac Banking Corporation" -> {}
    [] company_name = "TransRe" -> {"sre"}
    [] OTHER -> {}

\* mock_job_page_content, as the keywords of job_keywords its text holds: the
\* title and heading carry the company name, the DevOps posting "devops", the
\* Software Developer posting "software developer".
mock_job_page_content(company_name, has_devops, has_software_dev) ==
  NameKeywords(company_name)
    \cup (IF has_devops THEN {"devops"} ELSE {})
    \cup (IF has_software_dev THEN {"software developer"} ELSE {})

\* check_company_careers_page in mock mode; has_devops and has_software_dev are
\* its two random.choice([True, False]) draws.
check_company_careers_page(company_name, company_url, has_devops, has_software_dev) ==
  LET page_text == mock_job_page_content(company_name, has_devops, has_software_dev)
      found_devops == page_text \cap job_keywords.devops # {}
      found_software == page_text \cap job_keywords.software_dev # {}
  IN  [has_devops |-> found_devops,
       has_software_dev |-> found_software,
       source |-> IF found_devops \/ found_software
                  THEN company_url \o "/careers" ELSE None]

\* check_linkedin_jobs in mock mode.
check_linkedin_jobs(company_name, has_devops, has_software_dev) ==
  [has_devops |-> has_devops,
   has_software_dev |-> has_software_dev,
   source |-> IF has_software_dev
              THEN "https://www.linkedin.com/jobs/search/?keywords="
                     \o company_name \o "%20Software%20Developer"
              ELSE IF has_devops
              THEN "https://www.linkedin.com/jobs/search/?keywords="
                     \o company_name \o "%20DevOps"
              ELSE None]

\* company_name.replace(' ', '-').lower() on the company names of the model.
company_query(company_name) ==
  CASE company_name = "Suncorp Group" -> "suncorp-group"
    [] company_name = "Kiwibank" -> "kiwibank"
    [] company_name = "Westpac Banking Corporation" -> "westpac-banking-corporation"
    [] company_name = "AMP Limited" -> "amp-limited"
    [] company_name = "Tower Limited" -> "tower-limited"

\* A blank name cell is read as NaN, a float: it has no replace(), and line 281
\* of check_seek_jobs, which is in no try block, raises AttributeError.
seek_raises(company_name) == company_name = None

\* check_seek_jobs in mock mode.
check_seek_jobs(company_name, country, has_devops, has_software_dev) ==
  LET domain == IF country = "Australia" THEN "seek.com.au" ELSE "seek.co.nz"
      seek_url == "https://www." \o domain \o "/jobs?keywords=" \o company_query(company_name)
  IN  [has_devops |-> has_devops,
       has_software_dev |-> has_software_dev,
       source |-> IF has_devops \/ has_software_dev THEN seek_url ELSE None]

\* apply_careers with the second branch writing the first branch's columns.
apply_careers_copy_paste(row, result) ==
  LET r1 == IF result.has_devops
            THEN [row EXCEPT !.hiring_devops = "Yes", !.devops_source = result.source]
            ELSE row
  IN  IF result.has_software_dev
      THEN [r1 EXCEPT !.hiring_devops = "Yes", !.devops_source = result.source]
      ELSE r1

\* Lines 346-351: the careers result sets a flag without looking at it.
apply_careers(row, result) ==
  LET r1 == IF result.has_devops
            THEN [row EXCEPT !.hiring_devops = "Yes", !.devops_source = result.source]
            ELSE row
  IN  IF result.has_software_dev
      THEN [r1 EXCEPT !.hiring_developers = "Yes", !.software_dev_source = result.source]
      ELSE r1

\* apply_later writing each flag from the result alone.
apply_later_overwrite(row, result) ==
  [row EXCEPT !.hiring_devops = IF result.has_devops THEN "Yes" ELSE "No",
              !.devops_source = result.source,
              !.hiring_developers = IF result.has_software_dev THEN "Yes" ELSE "No",
              !.software_dev_source = result.source]

\* apply_later recording the source of every report, whatever the flag is.
apply_later_last_source(row, result) ==
  LET r1 == IF result.has_devops
            THEN [row EXCEPT !.hiring_devops = "Yes", !.devops_source = result.source]
            ELSE row
  IN  IF result.has_software_dev
      THEN [r1 EXCEPT !.hiring_developers = "Yes", !.software_dev_source = result.source]
      ELSE r1

\* Lines 356-361 and 366-371: a later result sets a flag that is not 'Yes' yet.
apply_later(row, result) ==
  LET r1 == IF result.has_devops /\ row.hiring_devops # "Yes"
            THEN [row EXCEPT !.hiring_devops = "Yes", !.devops_source = result.source]
            ELSE row
  IN  IF result.has_software_dev /\ r1.hiring_developers # "Yes"
      THEN [r1 EXCEPT !.hiring_developers = "Yes", !.software_dev_source = result.source]
      ELSE r1

\* needs_more_checks comparing with the wrong literal.
needs_more_checks_not_no(row) == row.hiring_devops # "No" \/ row.hiring_developers # "No"

\* Lines 354 and 364: the condition under which the next source is queried.
needs_more_checks(row) == row.hiring_devops # "Yes" \/ row.hiring_developers # "Yes"

\* A final marking that settles only hiring_devops.
mark_no_devops_only(row) ==
  IF row.hiring_devops # "Yes" THEN [row EXCEPT !.hiring_devops = "No"] ELSE row

\* Lines 374-377.
mark_no(row) ==
  LET r1 == IF row.hiring_devops # "Yes" THEN [row EXCEPT !.hiring_devops = "No"] ELSE row
  IN  IF r1.hiring_developers # "Yes" THEN [r1 EXCEPT !.hiring_developers = "No"] ELSE r1

\* A summary flag that asks for both roles.
set_actively_hiring_both(row) ==
  IF row.hiring_devops = "Yes" /\ row.hiring_developers = "Yes"
  THEN [row EXCEPT !.actively_hiring = "Yes"]
  ELSE [row EXCEPT !.actively_hiring = "No"]

\* Lines 380-383.
set_actively_hiring(row) ==
  IF row.hiring_devops = "Yes" \/ row.hiring_developers = "Yes"
  THEN [row EXCEPT !.actively_hiring = "Yes"]
  ELSE [row EXCEPT !.actively_hiring = "No"]

\* Source columns added together with a new verification date.
add_source_columns_restamp(df) ==
  [i \in 1..Len(df) |->
     [company_id |-> df[i].company_id, company_name |-> df[i].company_name,
      industry |-> df[i].industry, country |-> df[i].country,
      company_website |-> df[i].company_website, linkedin_url |-> df[i].linkedin_url,
      actively_hiring |-> df[i].actively_hiring, hiring_devops |-> df[i].hiring_devops,
      hiring_developers |-> df[i].hiring_developers, data_source |-> df[i].data_source,
      last_verified |-> "now",
      devops_source |-> None, software_dev_source |-> None]]

\* Lines 332-333.
add_source_columns(df) ==
  [i \in 1..Len(df) |->
     [company_id |-> df[i].company_id, company_name |-> df[i].company_name,
      industry |-> df[i].industry, country |-> df[i].country,
      company_website |-> df[i].company_website, linkedin_url |-> df[i].linkedin_url,
      actively_hiring |-> df[i].actively_hiring, hiring_devops |-> df[i].hiring_devops,
      hiring_developers |-> df[i].hiring_developers, data_source |-> df[i].data_source,
      last_verified |-> df[i].last_verified,
      devops_source |-> None, software_dev_source |-> None]]

\* The companies of the tables the Status Checker is run on: one with a website,
\* one without, three whose flags an enriched file already set, and one whose
\* name cell an enriched file left blank.
LoadedCompanies ==
  { [company_name |-> None, industry |-> "Finance", country |-> "Australia",
     company_website |-> "example.com.au", linkedin_url |-> None,
     actively_hiring |-> "Unknown", hiring_devops |-> "Unknown",
     hiring_developers |-> "Unknown", data_source |-> "Sample Data",
     last_verified |-> "today"],
    [company_name |-> "Suncorp Group", industry |-> "Both", country |-> "Australia",
     company_website |-> "suncorp.com.au",
     linkedin_url |-> "https://www.linkedin.com/company/suncorp-group",
     actively_hiring |-> "Unknown", hiring_devops |-> "Unknown",
     hiring_developers |-> "Unknown", data_source |-> "ASX", last_verified |-> "today"],
    [company_name |-> "Kiwibank", industry |-> "Finance", country |-> "New Zealand",
     company_website |-> None,
     linkedin_url |-> "https://www.linkedin.com/company/kiwibank",
     actively_hiring |-> "Unknown", hiring_devops |-> "Unknown",
     hiring_developers |-> "Unknown", data_source |-> "NZX", last_verified |-> "today"],
    [company_name |-> "Westpac Banking Corporation", industry |-> "Finance",
     country |-> "Australia", company_website |-> "westpac.com.au",
     linkedin_url |-> None,
     actively_hiring |-> "Yes", hiring_devops |-> "Yes",
     hiring_developers |-> "No", data_source |-> "ASX", last_verified |-> "today"],
    [company_name |-> "AMP Limited", industry |-> "Both",
     country |-> "Australia", company_website |-> "amp.com.au",
     linkedin_url |-> None,
     actively_hiring |-> "Yes", hiring_devops |-> "Yes",
     hiring_developers |-> "Yes", data_source |-> "ASX", last_verified |-> "today"],
    [company_name |-> "Tower Limited", industry |-> "Insurance",
     country |-> "New Zealand", company_website |-> None,
     linkedin_url |-> "https://www.linkedin.com/company/tower-limited",
     actively_hiring |-> "Yes", hiring_devops |-> "No",
     hiring_developers |-> "Yes", data_source |-> "NZX", last_verified |-> "today"] }

\* A table of the given companies, ids in row order.
WithIds(rows) ==
  [i \in 1..Len(rows) |->
     [company_id |-> i, company_name |-> rows[i].company_name,
      industry |-> rows[i].industry, country |-> rows[i].country,
      company_website |-> rows[i].company_website, linkedin_url |-> rows[i].linkedin_url,
      actively_hiring |-> rows[i].actively_hiring, hiring_devops |-> rows[i].hiring_devops,
      hiring_developers |-> rows[i].hiring_developers, data_source |-> rows[i].data_source,
      last_verified |-> rows[i].last_verified]]

\* Tables of at most MaxRows companies, no company twice.
LoadedTables ==
  {WithIds(rows) : rows \in {s \in BSeq(LoadedCompanies, MaxRows) :
                               \A i, j \in 1..Len(s) : i # j => s[i] # s[j]}}

NoReport == [devops |-> FALSE, software_dev |-> FALSE]

Reported(result) ==
  [devops |-> vreported.devops \/ result.has_devops,
   software_dev |-> vreported.software_dev \/ result.has_software_dev]

VerifyStart ==
  /\ vinput \in LoadedTables
  /\ companies_df = vinput
  /\ vidx = 0
  /\ vpc = "columns"
  /\ vqueried = <<>>
  /\ vreported = NoReport
  /\ verified_xlsx = NoFile

\* Lines 332-333, and the loop's first row.
AddSourceColumns ==
  /\ vpc = "columns"
  /\ companies_df' = add_source_columns(companies_df)
  /\ vidx' = 1
  /\ vpc' = IF Len(companies_df) = 0 THEN "done" ELSE "careers"
  /\ UNCHANGED <<vinput, vqueried, vreported>>
  /\ UNCHANGED <<verified_xlsx, otherThanVerify>>

\* Lines 344-351, the row has a website.
CheckCareers ==
  /\ vpc = "careers"
  /\ companies_df[vidx].company_website # None
  /\ \E has_devops, has_software_dev \in BOOLEAN :
       LET row == companies_df[vidx]
           careers_result ==
             check_company_careers_page(row.company_name, row.company_website,
                                        has_devops, has_software_dev)
       IN  /\ companies_df' = [companies_df EXCEPT ![vidx] = apply_careers(row, careers_result)]
           /\ vreported' = Reported(careers_result)
  /\ vqueried' = Append(vqueried, "careers")
  /\ vpc' = "linkedin"
  /\ UNCHANGED <<vinput, vidx>>
  /\ UNCHANGED <<verified_xlsx, otherThanVerify>>

\* Line 344, the row has no website.
SkipCareers ==
  /\ vpc = "careers"
  /\ companies_df[vidx].company_website = None
  /\ vpc' = "linkedin"
  /\ UNCHANGED <<vinput, companies_df, vidx, vqueried, vreported>>
  /\ UNCHANGED <<verified_xlsx, otherThanVerify>>

\* Lines 354-361.
CheckLinkedIn ==
  /\ vpc = "linkedin"
  /\ needs_more_checks(companies_df[vidx])
  /\ \E has_devops, has_software_dev \in BOOLEAN :
       LET row == companies_df[vidx]
           linkedin_result ==
             check_linkedin_jobs(row.company_name, has_devops, has_software_dev)
       IN  /\ companies_df' = [companies_df EXCEPT ![vidx] = apply_later(row, linkedin_result)]
           /\ vreported' = Reported(linkedin_result)
  /\ vqueried' = Append(vqueried, "linkedin")
  /\ vpc' = "seek"
  /\ UNCHANGED <<vinput, vidx>>
  /\ UNCHANGED <<verified_xlsx, otherThanVerify>>

SkipLinkedIn ==
  /\ vpc = "linkedin"
  /\ ~needs_more_checks(companies_df[vidx])
  /\ vpc' = "seek"
  /\ UNCHANGED <<vinput, companies_df, vidx, vqueried, vreported>>
  /\ UNCHANGED <<verified_xlsx, otherThanVerify>>

\* Lines 364-371.
CheckSeek ==
  /\ vpc = "seek"
  /\ needs_more_checks(companies_df[vidx])
  /\ ~seek_raises(companies_df[vidx].company_name)
  /\ \E has_devops, has_software_dev \in BOOLEAN :
       LET row == companies_df[vidx]
           seek_result ==
             check_seek_jobs(row.company_name, row.country, has_devops, has_software_dev)
       IN  /\ companies_df' = [companies_df EXCEPT ![vidx] = apply_later(row, seek_result)]
           /\ vreported' = Reported(seek_result)
  /\ vqueried' = Append(vqueried, "seek")
  /\ vpc' = "mark"
  /\ UNCHANGED <<vinput, vidx>>
  /\ UNCHANGED <<verified_xlsx, otherThanVerify>>

\* Line 365: check_seek_jobs raises; no handler is around the call, the loop or
\* main()'s body, so the exception ends the run before main() saves.
SeekRaises ==
  /\ vpc = "seek"
  /\ needs_more_checks(companies_df[vidx])
  /\ seek_raises(companies_df[vidx].company_name)
  /\ vqueried' = Append(vqueried, "seek")
  /\ vpc' = "raised"
  /\ UNCHANGED <<vinput, companies_df, vidx, vreported>>
  /\ UNCHANGED <<verified_xlsx, otherThanVerify>>

SkipSeek ==
  /\ vpc = "seek"
  /\ ~needs_more_checks(companies_df[vidx])
  /\ vpc' = "mark"
  /\ UNCHANGED <<vinput, companies_df, vidx, vqueried, vreported>>
  /\ UNCHANGED <<verified_xlsx, otherThanVerify>>

\* Lines 374-377.
MarkNo ==
  /\ vpc = "mark"
  /\ companies_df' = [companies_df EXCEPT ![vidx] = mark_no(companies_df[vidx])]
  /\ vpc' = "active"
  /\ UNCHANGED <<vinput, vidx, vqueried, vreported>>
  /\ UNCHANGED <<verified_xlsx, otherThanVerify>>

\* Lines 380-383.
SetActivelyHiring ==
  /\ vpc = "active"
  /\ companies_df' = [companies_df EXCEPT ![vidx] = set_actively_hiring(companies_df[vidx])]
  /\ vpc' = "row_done"
  /\ UNCHANGED <<vinput, vidx, vqueried, vreported>>
  /\ UNCHANGED <<verified_xlsx, otherThanVerify>>

\* Line 335: the loop moves to the next row, or line 388 returns.
NextRow ==
  /\ vpc = "row_done"
  /\ vidx' = vidx + 1
  /\ vpc' = IF vidx = Len(companies_df) THEN "done" ELSE "careers"
  /\ vqueried' = <<>>
  /\ vreported' = NoReport
  /\ UNCHANGED <<vinput, companies_df>>
  /\ UNCHANGED <<verified_xlsx, otherThanVerify>>

\* main(), lines 397-400: the table is saved.
SaveVerified ==
  /\ vpc = "done"
  /\ verified_xlsx' = companies_df
  /\ vpc' = "saved"
  /\ UNCHANGED <<vinput, companies_df, vidx, vqueried, vreported>>
  /\ UNCHANGED otherThanVerify

VerifyIdle ==
  /\ vinput = <<>>
  /\ companies_df = <<>>
  /\ vidx = 0
  /\ vpc = "idle"
  /\ vqueried = <<>>
  /\ vreported = NoReport
  /\ verified_xlsx = NoFile

(***************************************************************************)
(* Contact Finder: enrich_contacts (contact_enrichment.py).                *)
(***************************************************************************)

\* str.lower() on the name tokens of the model.
Lower(token) ==
  CASE token = "James" -> "james" [] token = "Mary" -> "mary"
    [] token = "Smith" -> "smith" [] token = "Jones" -> "jones"
    [] token = "Unknown" -> "unknown" [] token = "Technology" -> "technology"
    [] token = "Decision" -> "decision" [] token = "Maker" -> "maker"
    [] token = "Suncorp" -> "suncorp" [] token = "Group" -> "group"
    [] token = "Heartland" -> "heartland" [] token = "Holdings" -> "holdings"
    [] token = "Kiwibank" -> "kiwibank"
    [] OTHER -> token

\* s[0] of a lower-cased token.
FirstLetter(token) ==
  CASE token = "james" -> "j" [] token = "mary" -> "m"
    [] token = "smith" -> "s" [] token = "jones" -> "j"
    [] token = "technology" -> "t" [] token = "maker" -> "m"
    [] OTHER -> token

\* A name is the sequence of its whitespace-separated tokens (str.split()).
LowerName(name) == [i \in 1..Len(name) |-> Lower(name[i])]

\* extract_domain_from_url on the websites of the model: the scheme, a leading
\* "www." and the path are dropped.
extract_domain_from_url(url) ==
  CASE url = None -> None
    [] url = "suncorp.com.au" -> "suncorp.com.au"
    [] url = "chubb.com/au" -> "chubb.com"
    [] url = "https://www.kiwibank.com" -> "kiwibank.com"
    [] OTHER -> url

\* common_patterns of discover_email_pattern, before .format(company_domain).
common_patterns ==
  {"first.last@{}", "firstlast@{}", "first_last@{}", "flast@{}", "first.l@{}", "f.last@{}"}

\* The patterns random.choice draws in the runs of the model.
DrawnPatterns == {"first.last@{}", "flast@{}"}

\* A pattern string formatted with a domain.
Formatted(pattern, domain) == <<pattern, domain>>

\* A pattern that "not pattern" takes as missing, as it takes None: the empty one.
NoPattern == <<>>

\* A generate_email that renders first.last whatever the pattern.
generate_email_first_last(first_name, last_name, domain, pattern) ==
  Lower(first_name) \o "." \o Lower(last_name) \o "@" \o domain

\* generate_email(first_name, last_name, domain, pattern), lines 313-335.
generate_email(first_name, last_name, domain, pattern) ==
  LET p == IF pattern = None \/ pattern = NoPattern
           THEN Formatted("first.last@{}", domain) ELSE pattern
      first == Lower(first_name)
      last == Lower(last_name)
  IN  CASE p = Formatted("first.last@{}", domain) -> first \o "." \o last \o "@" \o domain
        [] p = Formatted("firstlast@{}", domain) -> first \o last \o "@" \o domain
        [] p = Formatted("first_last@{}", domain) -> first \o "_" \o last \o "@" \o domain
        [] p = Formatted("flast@{}", domain) -> FirstLetter(first) \o last \o "@" \o domain
        [] p = Formatted("first.l@{}", domain) ->
             first \o "." \o FirstLetter(last) \o "@" \o domain
        [] p = Formatted("f.last@{}", domain) ->
             FirstLetter(first) \o "." \o last \o "@" \o domain
        [] OTHER -> first \o "." \o last \o "@" \o domain

\* generate_mock_executive: a first and a last name, a title, a profile URL.
MockFirstNames == {"James", "Mary"}
MockLastNames == {"Smith"}
MockTitles == {"CTO"}

generate_mock_executive ==
  {[name |-> <<f, l>>, title |-> t,
    linkedin_url |-> "https://www.linkedin.com/in/" \o Lower(f) \o "-" \o Lower(l) \o "-10000",
    source |-> "Mock Data"] : f \in MockFirstNames, l \in MockLastNames, t \in MockTitles}

\* find_linkedin_executives: in mock mode random.randint(1, 3) mock executives;
\* otherwise what the search results hold, a name the regular expression does
\* not find being "Unknown".
SearchResultExecutives ==
  {[name |-> n, title |-> "Technology Executive",
    linkedin_url |-> "https://au.linkedin.com/in/profile",
    source |-> "LinkedIn via Google"] : n \in {<<"James", "Smith">>, <<"Unknown">>}}

\* A mock finder that may find nobody: zero to three mock executives.
find_linkedin_executives_or_none(mock) ==
  IF mock THEN UNION {[1..n -> generate_mock_executive] : n \in 0..3}
  ELSE BSeq(SearchResultExecutives, MaxFound)

find_linkedin_executives(mock) ==
  IF mock THEN UNION {[1..n -> generate_mock_executive] : n \in 1..3}
  ELSE BSeq(SearchResultExecutives, MaxFound)

\* find_company_executives: in mock mode none, or random.randint(1, 2) mock
\* executives with the leadership page as source; otherwise what the page holds.
LeadershipPageExecutives(company_url) ==
  {[name |-> n, title |-> "Cto", source |-> "https://" \o company_url \o "/about/leadership"] :
     n \in {<<"James", "Smith">>, <<"Mary", "Jones">>}}

find_company_executives(company_url, mock) ==
  IF mock
  THEN {<<>>} \cup
       UNION {[1..n -> {[e EXCEPT !.source = company_url \o "/about/leadership"] :
                          e \in generate_mock_executive}] : n \in 1..2}
  ELSE BSeq(LeadershipPageExecutives(company_url), MaxFound)

\* Lines 403-408: the LinkedIn executives, then the website executives whose
\* lower-cased name no LinkedIn executive has.
combine_executives(from_linkedin, from_website) ==
  LET linkedin_names == {LowerName(from_linkedin[i].name) : i \in 1..Len(from_linkedin)}
  IN  from_linkedin \o
      RowsAt(from_website,
             {i \in 1..Len(from_website) : LowerName(from_website[i].name) \notin linkedin_names})

\* Lines 411-416.
Placeholder ==
  [name |-> <<"Technology", "Decision", "Maker">>, title |-> "CTO or equivalent",
   source |-> "Placeholder - requires manual research"]

\* The combined list left as it is, empty or not.
with_placeholder_never(execs) == execs

with_placeholder(execs) == IF execs = <<>> THEN <<Placeholder>> ELSE execs

\* Every candidate given a row, whatever its name.
has_contact_row_always(exec_name) == TRUE

\* Lines 428-434: the candidates that get a row are those not named "Unknown"
\* whose name has two tokens or more.
has_contact_row(exec_name) == exec_name # <<"Unknown">> /\ Len(exec_name) >= 2

\* exec.get('linkedin_url', None).
LinkedInOf(exec) == IF "linkedin_url" \in DOMAIN exec THEN exec.linkedin_url ELSE None

\* find_phone_number in mock mode: None, or an AU / NZ number.
MockPhones == {None, "+61 2 1000 1000"}

\* Lines 453-462.
new_row(company_id, exec, email, phone, verification_status) ==
  [company_id |-> company_id, executive_name |-> exec.name,
   executive_title |-> exec.title, linkedin_url |-> LinkedInOf(exec),
   email |-> email, phone |-> phone, source |-> exec.source,
   verification_status |-> verification_status]

\* Lines 26-29: the rows the boolean mask selects.
hiring_mask(df) ==
  {i \in 1..Len(df) :
     /\ df[i].actively_hiring = "Yes"
     /\ (df[i].hiring_devops = "Yes" \/ df[i].hiring_developers = "Yes")}

\* Lines 37 and 39: the frame has the column and not only missing values in it.
\* A numeric column holds NaN for a missing value.
has_values(df, column) ==
  /\ Len(df) > 0
  /\ column \in DOMAIN df[1]
  /\ \E i \in 1..Len(df) : df[i][column] # NaN

\* Lines 38 and 40, sort_values(column, ascending=False) on a numeric column
\* whose values are pairwise different: the rows by falling value, the rows
\* without a value after them in their order.
sort_values_descending(df, column) ==
  LET valued == {i \in 1..Len(df) : df[i][column] # NaN}
      place(i) ==
        IF i \in valued
        THEN 1 + Cardinality({j \in valued : df[j][column] > df[i][column]})
        ELSE Cardinality(valued) + Cardinality({j \in 1..i : j \notin valued})
  IN  [k \in 1..Len(df) |-> df[CHOOSE i \in 1..Len(df) : place(i) = k]]

\* A filter that returns every selected row.
filter_actively_hiring_companies_all(df) == RowsAt(df, hiring_mask(df))

\* filter_actively_hiring_companies, lines 24-42.
filter_actively_hiring_companies(df) ==
  LET hiring_df == RowsAt(df, hiring_mask(df))
  IN  IF Len(hiring_df) < FilterLimit THEN hiring_df
      ELSE IF has_values(hiring_df, "company_size")
           THEN SubSeq(sort_values_descending(hiring_df, "company_size"), 1, FilterLimit)
      ELSE IF has_values(hiring_df, "annual_revenue")
           THEN SubSeq(sort_values_descending(hiring_df, "annual_revenue"), 1, FilterLimit)
      ELSE SubSeq(hiring_df, 1, FilterLimit)

\* The companies of the hiring-verified file.
VerifiedCompanies ==
  { [company_name |-> "Suncorp Group", company_website |-> "suncorp.com.au",
     linkedin_url |-> "https://www.linkedin.com/company/suncorp-group",
     actively_hiring |-> "Yes", hiring_devops |-> "Yes", hiring_developers |-> "Yes"],
    [company_name |-> "Kiwibank", company_website |-> None,
     linkedin_url |-> "https://www.linkedin.com/company/kiwibank",
     actively_hiring |-> "Yes", hiring_devops |-> "No", hiring_developers |-> "Yes"],
    [company_name |-> "Tower Limited", company_website |-> "tower.co.nz",
     linkedin_url |-> None,
     actively_hiring |-> "No", hiring_devops |-> "No", hiring_developers |-> "No"] }

VerifiedTablesUpTo(n) ==
  {[i \in 1..Len(rows) |->
      [company_id |-> i, company_name |-> rows[i].company_name,
       company_website |-> rows[i].company_website, linkedin_url |-> rows[i].linkedin_url,
       actively_hiring |-> rows[i].actively_hiring, hiring_devops |-> rows[i].hiring_devops,
       hiring_developers |-> rows[i].hiring_developers]] :
     rows \in {s \in BSeq(VerifiedCompanies, n) :
                 \A i, j \in 1..Len(s) : i # j => s[i] # s[j]}}

VerifiedTables == VerifiedTablesUpTo(MaxHiring)

\* The flags of a company that the filter drops.
DroppedFlags ==
  {<<"Yes", "No", "No">>, <<"No", "Yes", "Yes">>, <<"No", "No", "No">>}

\* The company_size column of a long table: empty, one value in the last row,
\* or a smaller value in the first row as well.
SizeColumns == {"empty", "last", "first and last"}

\* A hiring-verified file of n companies, those at the positions dropped with
\* the flags given, the others hiring for one role or both.
LongTable(n, dropped, flags, sizes) ==
  [i \in 1..n |->
     [company_id |-> i, company_name |-> "Company " \o ToString(i),
      company_website |-> None, linkedin_url |-> None,
      company_size |-> IF sizes # "empty" /\ i = n THEN 500
                       ELSE IF sizes = "first and last" /\ i = 1 THEN 200 ELSE NaN,
      annual_revenue |-> NaN,
      actively_hiring |-> IF i \in dropped THEN flags[1] ELSE "Yes",
      hiring_devops |-> IF i \in dropped THEN flags[2]
                        ELSE IF i % 2 = 0 THEN "Yes" ELSE "No",
      hiring_developers |-> IF i \in dropped THEN flags[3] ELSE "Yes"]]

\* Files of about FilterLimit companies.
LongTables ==
  {LongTable(n, dropped, flags, sizes) :
     n \in (FilterLimit - 1)..(FilterLimit + 2),
     dropped \in SUBSET {2, FilterLimit - 1},
     flags \in DroppedFlags, sizes \in SizeColumns}

ContactStartOn(tables) ==
  /\ all_companies_df \in tables
  /\ use_mock \in BOOLEAN
  /\ hiring_companies_df = <<>>
  /\ executives_df = <<>>
  /\ eidx = 0
  /\ epc = "filter"
  /\ linkedin_execs = <<>>
  /\ website_execs = <<>>
  /\ all_execs = <<>>
  /\ xidx = 0
  /\ email_pattern = None

\* main(), line 477.
ContactStart == ContactStartOn(VerifiedTables)

FilterHiring ==
  /\ epc = "filter"
  /\ hiring_companies_df' = filter_actively_hiring_companies(all_companies_df)
  /\ eidx' = 1
  /\ epc' = IF hiring_companies_df' = <<>> THEN "done" ELSE "find"
  /\ UNCHANGED <<all_companies_df, use_mock, executives_df, linkedin_execs, website_execs,
                 all_execs, xidx, email_pattern>>
  /\ UNCHANGED otherThanContact

\* Lines 389-400: the two finders.
FindExecutives ==
  /\ epc = "find"
  /\ LET company_url == hiring_companies_df[eidx].company_website
     IN  /\ linkedin_execs' \in find_linkedin_executives(use_mock)
         /\ website_execs' \in (IF company_url # None
                                THEN find_company_executives(company_url, use_mock)
                                ELSE {<<>>})
  /\ epc' = "combine"
  /\ UNCHANGED <<all_companies_df, use_mock, hiring_companies_df, executives_df, eidx,
                 all_execs, xidx, email_pattern>>
  /\ UNCHANGED otherThanContact

\* Lines 402-422: the combined list, the placeholder, the domain and the pattern.
CombineExecutives ==
  /\ epc = "combine"
  /\ all_execs' = with_placeholder(combine_executives(linkedin_execs, website_execs))
  /\ LET company_url == hiring_companies_df[eidx].company_website
         company_domain == extract_domain_from_url(company_url)
     IN  IF company_domain # None
         THEN \E p \in DrawnPatterns : email_pattern' = Formatted(p, company_domain)
         ELSE email_pattern' = None
  /\ xidx' = 1
  /\ epc' = "process"
  /\ UNCHANGED <<all_companies_df, use_mock, hiring_companies_df, executives_df, eidx,
                 linkedin_execs, website_execs>>
  /\ UNCHANGED otherThanContact

\* Lines 425-434: an executive named "Unknown" or with one name token is skipped.
SkipExecutive ==
  /\ epc = "process"
  /\ xidx <= Len(all_execs)
  /\ ~has_contact_row(all_execs[xidx].name)
  /\ xidx' = xidx + 1
  /\ UNCHANGED <<all_companies_df, use_mock, hiring_companies_df, executives_df, eidx, epc,
                 linkedin_execs, website_execs, all_execs, email_pattern>>
  /\ UNCHANGED otherThanContact

\* Lines 425-465: the executive's row.
AddExecutive ==
  /\ epc = "process"
  /\ xidx <= Len(all_execs)
  /\ has_contact_row(all_execs[xidx].name)
  /\ LET exec == all_execs[xidx]
         company == hiring_companies_df[eidx]
         company_domain == extract_domain_from_url(company.company_website)
         first_name == exec.name[1]
         last_name == exec.name[Len(exec.name)]
         email == IF company_domain # None /\ email_pattern # None
                  THEN generate_email(first_name, last_name, company_domain, email_pattern)
                  ELSE None
     IN  \E verified \in BOOLEAN, phone \in (IF use_mock THEN MockPhones ELSE {None}) :
           /\ email = None => verified
           /\ executives_df' =
                Append(executives_df,
                       new_row(company.company_id, exec, email, phone,
                               IF email # None /\ verified THEN "Domain MX Verified"
                               ELSE "Not Verified"))
  /\ xidx' = xidx + 1
  /\ UNCHANGED <<all_companies_df, use_mock, hiring_companies_df, eidx, epc,
                 linkedin_execs, website_execs, all_execs, email_pattern>>
  /\ UNCHANGED otherThanContact

\* Line 388: the next company, or line 470 returns and main() saves.
NextCompany ==
  /\ epc = "process"
  /\ xidx > Len(all_execs)
  /\ eidx' = eidx + 1
  /\ epc' = IF eidx = Len(hiring_companies_df) THEN "done" ELSE "find"
  /\ linkedin_execs' = <<>>
  /\ website_execs' = <<>>
  /\ all_execs' = <<>>
  /\ xidx' = 0
  /\ email_pattern' = None
  /\ UNCHANGED <<all_companies_df, use_mock, hiring_companies_df, executives_df>>
  /\ UNCHANGED otherThanContact

ContactIdle ==
  /\ all_companies_df = <<>>
  /\ use_mock = TRUE
  /\ hiring_companies_df = <<>>
  /\ executives_df = <<>>
  /\ eidx = 0
  /\ epc = "idle"
  /\ linkedin_execs = <<>>
  /\ website_execs = <<>>
  /\ all_execs = <<>>
  /\ xidx = 0
  /\ email_pattern = None

(***************************************************************************)
(* Consolidator (data_consolidation.py).  A frame is the sequence of its   *)
(* rows; a row carries its index label in the field "index".  A company    *)
(* name is the sequence of its whitespace-separated tokens.                *)
(***************************************************************************)

\* pd.isna.
isna(v) == v = None

\* The tokens of the model that are a parenthesis, as "(NZ)" is: none.
ParenthesisedTokens == {}

\* patterns, lines 30-34: the last tokens each suffix pattern matches under
\* re.IGNORECASE; the tenth pattern, a parenthetical, is ParenthesisedTokens.
patterns ==
  <<{"ltd", "ltd."}, {"limited"}, {"pty", "pty."}, {"corp", "corp."},
    {"corporation"}, {"inc", "inc."}, {"llc"}, {"group"}, {"holdings"},
    ParenthesisedTokens>>

\* re.sub(pattern, '', cleaned): the pattern needs whitespace before the suffix,
\* so the only token of a name is never removed.
strip_suffix(name, suffixes) ==
  IF Len(name) >= 2 /\ Lower(name[Len(name)]) \in suffixes
  THEN SubSeq(name, 1, Len(name) - 1)
  ELSE name

RECURSIVE apply_patterns(_, _)
apply_patterns(name, k) ==
  IF k = 0 THEN name ELSE strip_suffix(apply_patterns(name, k - 1), patterns[k])

\* clean_name, lines 37-41: every pattern once, in the order of the list.
clean_name(name) == apply_patterns(name, Len(patterns))

\* clean_company_names, lines 27-46.
clean_company_names(df) ==
  [i \in 1..Len(df) |-> df[i] @@ [clean_company_name |-> clean_name(df[i].company_name)]]

\* The columns of the contacts file a company with no contact gets as NaN.
NoContact ==
  [executive_name |-> None, executive_title |-> None, linkedin_url_y |-> None,
   email |-> None, phone |-> None]

ContactColumns(contact) ==
  [executive_name |-> contact.executive_name, executive_title |-> contact.executive_title,
   linkedin_url_y |-> contact.linkedin_url, email |-> contact.email,
   phone |-> contact.phone]

\* pd.merge with how='inner': a company with no contact has no row.
merge_rows_inner(company, executives_rows) ==
  LET matching == {j \in 1..Len(executives_rows) :
                     executives_rows[j].company_id = company.company_id}
      left == [f \in (DOMAIN company) \ {"linkedin_url"} |-> company[f]]
                @@ [linkedin_url_x |-> company.linkedin_url]
  IN  [n \in 1..Cardinality(matching) |->
         left @@ ContactColumns(RowsAt(executives_rows, matching)[n])]

\* The rows pd.merge(how='left', on='company_id') makes of one company: one per
\* contact with its id, in the contacts' order, or one with no contact.
merge_rows(company, executives_rows) ==
  LET matching == {j \in 1..Len(executives_rows) :
                     executives_rows[j].company_id = company.company_id}
      left == [f \in (DOMAIN company) \ {"linkedin_url"} |-> company[f]]
                @@ [linkedin_url_x |-> company.linkedin_url]
  IN  IF matching = {} THEN <<left @@ NoContact>>
      ELSE [n \in 1..Cardinality(matching) |->
              left @@ ContactColumns(RowsAt(executives_rows, matching)[n])]

\* pd.merge, lines 54-59: the companies in their order; the result has a fresh
\* RangeIndex.
merge(companies_rows, executives_rows) ==
  LET rows == Concat([i \in 1..Len(companies_rows) |->
                        merge_rows(companies_rows[i], executives_rows)],
                     Len(companies_rows))
  IN  [i \in 1..Len(rows) |-> rows[i] @@ [index |-> i - 1]]

\* float(str(size).replace(',', '')) on the company sizes of the model: the
\* value, or NaN for what float() rejects.
ParseFloat(size) ==
  CASE size = "50" -> 50 [] size = "100" -> 100 [] size = "101" -> 101
    [] size = "1000" -> 1000 [] size = "1,001" -> 1001
    [] size = "5000" -> 5000 [] size = "5,001" -> 5001
    [] size = "10000" -> 10000 [] size = "10001.0" -> 10001
    [] size = "20000" -> 20000
    [] OTHER -> NaN

\* What DataFrame.sort_values(column, ascending=False) may return: kind is left
\* at its default 'quicksort', which is not stable, so rows with equal keys come
\* out in any order; NaN keys are last.  key[i] is the key of row i, NaN for none.
sort_values(df, key) ==
  {[i \in 1..Len(df) |-> df[p[i]]] :
     p \in {q \in Permutations(1..Len(df)) :
              \A a, b \in 1..Len(df) : a < b => key[q[a]] >= key[q[b]]}}

CompanySizeKey(row) == IF isna(row.company_size) THEN NaN ELSE ParseFloat(row.company_size)

\* Lines 62-65; annual_revenue is NaN in every row of the model.
sorted_by_size(df) ==
  IF \E i \in 1..Len(df) : ~isna(df[i].company_size)
  THEN sort_values(df, [i \in 1..Len(df) |-> CompanySizeKey(df[i])])
  ELSE {df}

\* str * n: the empty string when n is not positive.
Repeat(glyph, n) == [i \in 1..Max(n, 0) |-> glyph]

\* The count calculate_quality keeps in score, lines 69-89.
quality_score(row) ==
  (IF ~(isna(row.company_name) \/ isna(row.industry) \/ isna(row.country)) THEN 1 ELSE 0)
  + (IF ~isna(row.company_website) /\ ~isna(row.linkedin_url_x) THEN 1 ELSE 0)
  + (IF ~isna(row.executive_name) THEN 1 ELSE 0)
  + (IF ~isna(row.executive_title) THEN 1 ELSE 0)
  + (IF ~isna(row.linkedin_url_y) THEN 1 ELSE 0)
  + (IF ~isna(row.email) THEN 1 ELSE 0)
  + (IF ~isna(row.phone) THEN 1 ELSE 0)

\* calculate_quality, lines 68-95: the stars, a sequence of glyphs.
calculate_quality(row) ==
  Repeat("filled star", quality_score(row)) \o Repeat("empty star", StarScale - quality_score(row))

\* Lines 97-137 for one row: the quality cell, then the columns renamed and
\* selected.
final_row(row) ==
  [index |-> row.index]
  @@ ("Company Name" :> row.clean_company_name)
  @@ ("Industry" :> row.industry)
  @@ ("Country" :> row.country)
  @@ ("Company Size" :> row.company_size)
  @@ ("Company Website" :> row.company_website)
  @@ ("Company LinkedIn" :> row.linkedin_url_x)
  @@ ("Hiring DevOps" :> row.hiring_devops)
  @@ ("Hiring Software Developers" :> row.hiring_developers)
  @@ ("C-Level Contact Name" :> row.executive_name)
  @@ ("C-Level Title" :> row.executive_title)
  @@ ("C-Level LinkedIn" :> row.linkedin_url_y)
  @@ ("C-Level Email" :> row.email)
  @@ ("C-Level Phone" :> row.phone)
  @@ ("Data Quality" :> calculate_quality(row))

\* len(final_df[mask]['Company Name'].unique()), the mask given as the labels of
\* the rows it keeps.
unique_names(df, kept) == Cardinality({df[i]["Company Name"] : i \in kept})

\* metrics of create_summary_data, lines 143-185, in the order of insertion.
metrics(df) ==
  LET rows == 1..Len(df)
  IN  <<<<"Total Companies", unique_names(df, rows)>>,
        <<"Australian Companies",
          unique_names(df, {i \in rows : df[i]["Country"] = "Australia"})>>,
        <<"New Zealand Companies",
          unique_names(df, {i \in rows : df[i]["Country"] = "New Zealand"})>>,
        <<"Insurance Companies",
          unique_names(df, {i \in rows : df[i]["Industry"] = "Insurance"})>>,
        <<"Finance Companies",
          unique_names(df, {i \in rows : df[i]["Industry"] = "Finance"})>>,
        <<"Companies with Both Classifications",
          unique_names(df, {i \in rows : df[i]["Industry"] = "Both"})>>,
        <<"Companies Hiring DevOps",
          unique_names(df, {i \in rows : df[i]["Hiring DevOps"] = "Yes"})>>,
        <<"Companies Hiring Software Developers",
          unique_names(df, {i \in rows : df[i]["Hiring Software Developers"] = "Yes"})>>,
        <<"Companies Hiring Both Roles",
          unique_names(df, {i \in rows : /\ df[i]["Hiring DevOps"] = "Yes"
                                          /\ df[i]["Hiring Software Developers"] = "Yes"})>>,
        <<"C-Level Contacts Found",
          unique_names(df, {i \in rows : ~isna(df[i]["C-Level Contact Name"])})>>,
        <<"C-Level Emails Found",
          unique_names(df, {i \in rows : ~isna(df[i]["C-Level Email"])})>>,
        <<"C-Level Phone Numbers Found",
          unique_names(df, {i \in rows : ~isna(df[i]["C-Level Phone"])})>>>>

\* Line 188: metrics.get('Total Companies', 1); the key is always there, so the
\* default is never used.
total_companies(df) == metrics(df)[1][2]

\* Line 189, f"{v/total_companies*100:.1f}%": the percentage in tenths of a
\* percent, rounded to the nearest.
percentage(v, total) == (2000 * v + total) \div (2 * total)

\* Line 189 raises ZeroDivisionError: v/total_companies with total_companies 0.
create_summary_data_raises(df) == total_companies(df) = 0

\* create_summary_data, lines 141-198, when line 189 does not raise.
create_summary_data(df) ==
  [k \in 1..Len(metrics(df)) |->
     [Metric |-> metrics(df)[k][1],
      Count |-> metrics(df)[k][2],
      Percentage |-> percentage(metrics(df)[k][2], total_companies(df))]]

\* score_opportunity with the size thresholds met at equality.
score_opportunity_at_least(row) ==
  (IF row["Hiring DevOps"] = "Yes" /\ row["Hiring Software Developers"] = "Yes" THEN 3
   ELSE IF row["Hiring DevOps"] = "Yes" \/ row["Hiring Software Developers"] = "Yes" THEN 1
   ELSE 0)
  + (IF ~isna(row["C-Level Contact Name"]) THEN 1 ELSE 0)
  + (IF ~isna(row["C-Level Email"]) THEN 2 ELSE 0)
  + (IF ~isna(row["C-Level Phone"]) THEN 2 ELSE 0)
  + (IF ~isna(row["Company Size"])
     THEN LET size == ParseFloat(row["Company Size"])
          IN  IF size = NaN THEN 0
              ELSE IF size >= 10000 THEN 3
              ELSE IF size >= 1000 THEN 2
              ELSE IF size >= 100 THEN 1
              ELSE 0
     ELSE 0)

\* score_opportunity, lines 339-372; every column it asks for is in the row.
score_opportunity(row) ==
  (IF row["Hiring DevOps"] = "Yes" /\ row["Hiring Software Developers"] = "Yes" THEN 3
   ELSE IF row["Hiring DevOps"] = "Yes" \/ row["Hiring Software Developers"] = "Yes" THEN 1
   ELSE 0)
  + (IF ~isna(row["C-Level Contact Name"]) THEN 1 ELSE 0)
  + (IF ~isna(row["C-Level Email"]) THEN 2 ELSE 0)
  + (IF ~isna(row["C-Level Phone"]) THEN 2 ELSE 0)
  + (IF ~isna(row["Company Size"])
     THEN LET size == ParseFloat(row["Company Size"])
          IN  IF size = NaN THEN 0
              ELSE IF size > 10000 THEN 3
              ELSE IF size > 1000 THEN 2
              ELSE IF size > 100 THEN 1
              ELSE 0
     ELSE 0)

\* create_opportunity_note with the DevOps branch tried before the both-roles
\* branch, and the complete-contact fragment given for an email alone.
create_opportunity_note_devops_first(row) ==
  LET hiring ==
        IF row["Hiring DevOps"] = "Yes" THEN <<"Currently seeking DevOps talent">>
        ELSE IF row["Hiring Software Developers"] = "Yes"
        THEN <<"Actively recruiting Software Developers">>
        ELSE <<>>
      contact ==
        IF ~isna(row["C-Level Email"])
        THEN <<"Complete C-level contact information available">>
        ELSE <<>>
  IN  IF hiring \o contact # <<>> THEN hiring \o contact ELSE <<"Standard opportunity">>

\* create_opportunity_note, lines 378-405: the fragments "; ".join joins.
create_opportunity_note(row) ==
  LET hiring ==
        IF row["Hiring DevOps"] = "Yes" /\ row["Hiring Software Developers"] = "Yes"
        THEN <<"Actively hiring for both DevOps and Software Developer roles">>
        ELSE IF row["Hiring DevOps"] = "Yes" THEN <<"Currently seeking DevOps talent">>
        ELSE IF row["Hiring Software Developers"] = "Yes"
        THEN <<"Actively recruiting Software Developers">>
        ELSE <<>>
      contact ==
        IF ~isna(row["C-Level Email"]) /\ ~isna(row["C-Level Phone"])
        THEN <<"Complete C-level contact information available">>
        ELSE IF ~isna(row["C-Level Email"])
        THEN <<"Direct email contact available for decision maker">>
        ELSE <<>>
      size == IF isna(row["Company Size"]) THEN NaN ELSE ParseFloat(row["Company Size"])
      enterprise ==
        IF size = NaN THEN <<>>
        ELSE IF size > 5000 THEN <<"Major enterprise with significant IT needs">>
        ELSE IF size > 1000 THEN <<"Large company with established IT department">>
        ELSE <<>>
      notes == hiring \o contact \o enterprise
  IN  IF notes # <<>> THEN notes ELSE <<"Standard opportunity">>

\* Lines 375 and 407 for one row.
scored_row(row) ==
  row @@ ("Opportunity Score" :> score_opportunity(row))
      @@ ("Opportunity Notes" :> create_opportunity_note(row))

OpportunityScoreKey(row) == row["Opportunity Score"]

\* drop_duplicates(subset=['Company Name']): the first row of each name.
drop_duplicate_names(df) ==
  RowsAt(df, {i \in 1..Len(df) :
                \A j \in 1..(i - 1) : df[j]["Company Name"] # df[i]["Company Name"]})

\* DataFrame.head.
head(df, n) == SubSeq(df, 1, Min(n, Len(df)))

\* Lines 410-411: what top_opportunities may be.
top_rows(df) ==
  {head(drop_duplicate_names(sorted), TopN) :
     sorted \in sort_values(df, [i \in 1..Len(df) |-> OpportunityScoreKey(df[i])])}

(***************************************************************************)
(* Consolidator, one row: the three row functions on every combination of  *)
(* present and missing cells.                                              *)
(***************************************************************************)
HiringFlags == {"Yes", "No", "Unknown"}
CompanySizes ==
  {None, "n/a", "50", "100", "101", "1000", "1,001", "5000", "5,001", "10000", "10001.0"}

MergedRows ==
  [index : {0},
   company_id : {7},
   company_name : {<<"Suncorp", "Group">>},
   clean_company_name : {clean_name(<<"Suncorp", "Group">>)},
   industry : {"Both", None},
   country : {"Australia"},
   company_size : CompanySizes,
   company_website : {"suncorp.com.au", None},
   linkedin_url_x : {"https://www.linkedin.com/company/suncorp-group", None},
   hiring_devops : HiringFlags,
   hiring_developers : HiringFlags,
   executive_name : {"Jane Doe", None},
   executive_title : {"CTO", None},
   linkedin_url_y : {"https://www.linkedin.com/in/jane-doe-10000", None},
   email : {"jane.doe@suncorp.com.au", None},
   phone : {"+61 7 1234 5678", None}]

RowStart ==
  /\ merged_row \in MergedRows
  /\ report_row = None
  /\ rpc = "quality"

\* Lines 97-137, for the row.
CalculateQuality ==
  /\ rpc = "quality"
  /\ report_row' = final_row(merged_row)
  /\ rpc' = "score"
  /\ UNCHANGED merged_row
  /\ UNCHANGED otherThanRow

\* Line 375, for the row.
ScoreOpportunity ==
  /\ rpc = "score"
  /\ report_row' = report_row @@ ("Opportunity Score" :> score_opportunity(report_row))
  /\ rpc' = "note"
  /\ UNCHANGED merged_row
  /\ UNCHANGED otherThanRow

\* Line 407, for the row.
CreateOpportunityNote ==
  /\ rpc = "note"
  /\ report_row' = report_row @@ ("Opportunity Notes" :> create_opportunity_note(report_row))
  /\ rpc' = "done"
  /\ UNCHANGED merged_row
  /\ UNCHANGED otherThanRow

RowIdle ==
  /\ merged_row = None
  /\ report_row = None
  /\ rpc = "idle"

(***************************************************************************)
(* Consolidator, the tables: main, lines 579-626.                          *)
(***************************************************************************)
ReportCompanyNames ==
  {<<"Suncorp", "Group">>, <<"Heartland", "Group", "Holdings">>, <<"Kiwibank">>}

\* A blank name cell, read as NaN: no token but the missing value.
BlankName == <<None>>

\* The name cells of top_hiring_companies.xlsx: a name, or a blank cell.
ReportNameCells == ReportCompanyNames \cup {BlankName}

\* re.sub raises TypeError on a name that is NaN (clean_name, line 40).
clean_name_raises(df) == \E i \in 1..Len(df) : df[i].company_name = BlankName

\* Lines 621-624: what the except branch of main() prints.
ErrorOutput == <<"Error in data consolidation", "traceback">>

\* A size and the flags of a company of top_hiring_companies.xlsx.
ReportProfiles ==
  {<<None, "Yes", "Yes">>, <<"20000", "Yes", "No">>}

report_company(id, name, profile) ==
  [company_id |-> id, company_name |-> name, industry |-> "Both",
   country |-> "Australia", company_size |-> profile[1],
   company_website |-> "example.com.au",
   linkedin_url |-> "https://www.linkedin.com/company/example",
   hiring_devops |-> profile[2], hiring_developers |-> profile[3]]

\* top_hiring_companies.xlsx: companies with distinct names and distinct ids.
ReportCompanyTables ==
  {[i \in 1..Len(names) |-> report_company(i, names[i], profiles[i])] :
     <<names, profiles>> \in
       {np \in BSeq(ReportNameCells, MaxEntities) \X BSeq(ReportProfiles, MaxEntities) :
          /\ Len(np[1]) = Len(np[2])
          /\ \A i, j \in 1..Len(np[1]) : i # j => np[1][i] # np[1][j]}}

\* The people of executives_contacts.xlsx, by row.
ContactNames == <<"Jane Doe", "Sam Lee", "Ana Cruz", "Tom Hill">>

\* The email and the phone of a contact: both found, or neither.
ContactReach == {<<"first.last@example.com.au", "+61 7 1234 5678">>, <<None, None>>}

\* What a contact has besides its name: a company, a title, a profile, and an
\* email and a phone or not.
ReportContacts ==
  {[company_id |-> id, executive_title |-> "CTO",
    linkedin_url |-> "https://www.linkedin.com/in/profile-10000",
    email |-> reach[1], phone |-> reach[2]] :
     id \in 1..MaxEntities, reach \in ContactReach}

\* executives_contacts.xlsx.
ReportContactTables ==
  {[j \in 1..Len(t) |-> t[j] @@ [executive_name |-> ContactNames[j]]] :
     t \in BSeq(ReportContacts, MaxContacts)}

ReportStart ==
  /\ report_companies_df \in ReportCompanyTables
  /\ report_executives_df \in ReportContactTables
  /\ merged_df = <<>>
  /\ final_df = <<>>
  /\ summary_df = <<>>
  /\ opportunities_df = <<>>
  /\ top_opportunities = <<>>
  /\ fpc = "merge"
  /\ final_xlsx = NoFile
  /\ report_console = <<>>
  /\ report_error_log = NoFile

\* prepare_final_dataset, lines 51-59.
Merge ==
  /\ fpc = "merge"
  /\ ~clean_name_raises(report_companies_df)
  /\ merged_df' = merge(clean_company_names(report_companies_df), report_executives_df)
  /\ fpc' = "prepare"
  /\ UNCHANGED <<report_companies_df, report_executives_df, final_df, opportunities_df,
                 top_opportunities>>
  /\ UNCHANGED <<summary_df, reportOutputs, otherThanReport>>

\* prepare_final_dataset, line 51, raises: main()'s except branch, lines 621-624,
\* prints the error and the stack trace, and main() returns.
MergeRaises ==
  /\ fpc = "merge"
  /\ clean_name_raises(report_companies_df)
  /\ report_console' = ErrorOutput
  /\ fpc' = "failed"
  /\ UNCHANGED <<report_companies_df, report_executives_df, merged_df, final_df,
                 opportunities_df, top_opportunities, final_xlsx, report_error_log>>
  /\ UNCHANGED <<summary_df, otherThanReport>>

\* prepare_final_dataset, lines 61-139.
PrepareFinal ==
  /\ fpc = "prepare"
  /\ \E sorted \in sorted_by_size(merged_df) :
       final_df' = [i \in 1..Len(sorted) |-> final_row(sorted[i])]
  /\ fpc' = "summary"
  /\ UNCHANGED <<report_companies_df, report_executives_df, merged_df, opportunities_df,
                 top_opportunities>>
  /\ UNCHANGED <<summary_df, reportOutputs, otherThanReport>>

\* main(), line 590: create_summary_data returns the summary.
CreateSummary ==
  /\ fpc = "summary"
  /\ ~create_summary_data_raises(final_df)
  /\ summary_df' = create_summary_data(final_df)
  /\ fpc' = "score"
  /\ UNCHANGED <<report_companies_df, report_executives_df, merged_df, final_df,
                 opportunities_df, top_opportunities>>
  /\ UNCHANGED <<reportOutputs, otherThanReport>>

\* main(), line 590: create_summary_data raises ZeroDivisionError; the except
\* branch, lines 621-624.
CreateSummaryRaises ==
  /\ fpc = "summary"
  /\ create_summary_data_raises(final_df)
  /\ report_console' = ErrorOutput
  /\ fpc' = "failed"
  /\ UNCHANGED <<report_companies_df, report_executives_df, merged_df, final_df, summary_df,
                 opportunities_df, top_opportunities, final_xlsx, report_error_log>>
  /\ UNCHANGED otherThanReport

\* create_opportunities_content, lines 336-407.
ScoreOpportunities ==
  /\ fpc = "score"
  /\ opportunities_df' = [i \in 1..Len(final_df) |-> scored_row(final_df[i])]
  /\ fpc' = "top"
  /\ UNCHANGED <<report_companies_df, report_executives_df, merged_df, final_df,
                 top_opportunities>>
  /\ UNCHANGED <<summary_df, reportOutputs, otherThanReport>>

\* create_opportunities_content, lines 409-423.
TopOpportunities ==
  /\ fpc = "top"
  /\ top_opportunities' \in top_rows(opportunities_df)
  /\ fpc' = "done"
  /\ UNCHANGED <<report_companies_df, report_executives_df, merged_df, final_df,
                 opportunities_df>>
  /\ UNCHANGED <<summary_df, reportOutputs, otherThanReport>>

\* main(), lines 600-606: the workbook is made and saved.
SaveWorkbook ==
  /\ fpc = "done"
  /\ final_xlsx' = [company_data |-> final_df, top_opportunities |-> top_opportunities]
  /\ fpc' = "saved"
  /\ UNCHANGED <<report_companies_df, report_executives_df, merged_df, final_df,
                 opportunities_df, top_opportunities, report_console, report_error_log>>
  /\ UNCHANGED <<summary_df, otherThanReport>>

\* main(), line 606: workbook.save raises, as it does when the file is open in
\* another program; the except branch, lines 621-624.
SaveRaises ==
  /\ fpc = "done"
  /\ report_console' = ErrorOutput
  /\ fpc' = "failed"
  /\ UNCHANGED <<report_companies_df, report_executives_df, merged_df, final_df,
                 opportunities_df, top_opportunities, final_xlsx, report_error_log>>
  /\ UNCHANGED <<summary_df, otherThanReport>>

ReportIdle ==
  /\ report_companies_df = <<>>
  /\ report_executives_df = <<>>
  /\ merged_df = <<>>
  /\ final_df = <<>>
  /\ summary_df = <<>>
  /\ opportunities_df = <<>>
  /\ top_opportunities = <<>>
  /\ fpc = "idle"
  /\ final_xlsx = NoFile
  /\ report_console = <<>>
  /\ report_error_log = NoFile

(***************************************************************************)
(* generate_email called on its own.                                       *)
(***************************************************************************)
\* The templates of common_patterns and one that is none of them.
Templates == common_patterns \cup {"last.first@{}"}

EmailDomains == {"suncorp.com.au", "kiwibank.com"}

\* The patterns a caller passes: none, or a template formatted with a domain,
\* as discover_email_pattern returns it.
Patterns == {NoPattern} \cup {Formatted(t, d) : t \in Templates, d \in EmailDomains}

EmailStart ==
  /\ email_args \in [first_name : {"James", "Mary"}, last_name : {"Smith", "Jones"},
                     domain : EmailDomains, pattern : Patterns]
  /\ emails = <<>>

\* The number of calls made with one set of arguments.
Calls == 2

\* One call of generate_email with the arguments.
GenerateEmail ==
  /\ Len(emails) < Calls
  /\ emails' = Append(emails, generate_email(email_args.first_name, email_args.last_name,
                                             email_args.domain, email_args.pattern))
  /\ UNCHANGED email_args
  /\ UNCHANGED otherThanEmail

EmailIdle ==
  /\ email_args = None
  /\ emails = <<>>

(***************************************************************************)
(* check_company_careers_page called on its own, in mock mode.             *)
(***************************************************************************)
CareersNames == {"Suncorp Group", "Kiwibank", "Westpac Banking Corporation", "TransRe"}

CareersUrls == {"suncorp.com.au", "kiwibank.co.nz", "https://www.westpac.com.au", "transre.com"}

CareersStart ==
  /\ careers_args \in [company_name : CareersNames, company_url : CareersUrls]
  /\ careers_calls = <<>>

\* One call of check_company_careers_page(company_name, company_url, use_mock=True):
\* lines 93-94 draw has_devops and has_software_dev.
CheckCareersPage ==
  /\ Len(careers_calls) < Calls
  /\ \E has_devops \in BOOLEAN, has_software_dev \in BOOLEAN :
       careers_calls' =
         Append(careers_calls,
                [has_devops |-> has_devops,
                 has_software_dev |-> has_software_dev,
                 result |-> check_company_careers_page(careers_args.company_name,
                                                       careers_args.company_url,
                                                       has_devops, has_software_dev)])
  /\ UNCHANGED careers_args
  /\ UNCHANGED otherThanCareers

CareersIdle ==
  /\ careers_args = None
  /\ careers_calls = <<>>

(***************************************************************************)
(* The start of the three later stages: loading the input files.           *)
(***************************************************************************)
Scripts == {"hiring_verification.py", "contact_enrichment.py", "data_consolidation.py"}

enriched_xlsx_path == "data/processed/companies_enriched.xlsx"
raw_xlsx_path == "data/raw/companies_raw.xlsx"
verified_xlsx_path == "data/processed/companies_hiring_verified.xlsx"
top_hiring_xlsx_path == "data/processed/top_hiring_companies.xlsx"
executives_xlsx_path == "data/processed/executives_contacts.xlsx"

InputFiles ==
  {enriched_xlsx_path, raw_xlsx_path, verified_xlsx_path, top_hiring_xlsx_path,
   executives_xlsx_path}

\* The files the main() of a script saves.
OutputFiles(s) ==
  CASE s = "hiring_verification.py" ->
         {"data/processed/companies_hiring_verified.csv", verified_xlsx_path}
    [] s = "contact_enrichment.py" ->
         {"data/processed/top_hiring_companies.csv", top_hiring_xlsx_path,
          "data/processed/executives_contacts.csv", executives_xlsx_path}
    [] s = "data_consolidation.py" -> {"data/final/ANZ_Insurance_Finance_Companies.xlsx"}

LoadStart ==
  /\ script \in Scripts
  /\ disk \in SUBSET InputFiles
  /\ stdout = <<>>
  /\ exit_status = None
  /\ written = {}
  /\ lpc = "load"

\* hiring_verification.py, load_companies, lines 18-19: the enriched file is read.
LoadEnriched ==
  /\ script = "hiring_verification.py" /\ lpc = "load"
  /\ enriched_xlsx_path \in disk
  /\ lpc' = "loaded"
  /\ UNCHANGED <<script, disk, stdout, exit_status, written>>
  /\ UNCHANGED otherThanLoad

\* Lines 20-21: no enriched file.
EnrichedNotFound ==
  /\ script = "hiring_verification.py" /\ lpc = "load"
  /\ enriched_xlsx_path \notin disk
  /\ stdout' = Append(stdout, "Enriched companies file not found. Using raw data...")
  /\ lpc' = "load raw"
  /\ UNCHANGED <<script, disk, exit_status, written>>
  /\ UNCHANGED otherThanLoad

\* Lines 22-23: the raw file is read.
LoadRaw ==
  /\ lpc = "load raw"
  /\ raw_xlsx_path \in disk
  /\ lpc' = "loaded"
  /\ UNCHANGED <<script, disk, stdout, exit_status, written>>
  /\ UNCHANGED otherThanLoad

\* Lines 24-26: no raw file either.
RawNotFound ==
  /\ lpc = "load raw"
  /\ raw_xlsx_path \notin disk
  /\ stdout' = Append(stdout,
                  "Raw companies file not found. Please run company_research.py first.")
  /\ exit_status' = 1
  /\ lpc' = "exited"
  /\ UNCHANGED <<script, disk, written>>
  /\ UNCHANGED otherThanLoad

\* contact_enrichment.py, load_companies, lines 18-19.
LoadVerified ==
  /\ script = "contact_enrichment.py" /\ lpc = "load"
  /\ verified_xlsx_path \in disk
  /\ lpc' = "loaded"
  /\ UNCHANGED <<script, disk, stdout, exit_status, written>>
  /\ UNCHANGED otherThanLoad

\* Lines 20-22.
VerifiedNotFound ==
  /\ script = "contact_enrichment.py" /\ lpc = "load"
  /\ verified_xlsx_path \notin disk
  /\ stdout' = Append(stdout,
       "Hiring verified companies file not found. Please run hiring_verification.py first.")
  /\ exit_status' = 1
  /\ lpc' = "exited"
  /\ UNCHANGED <<script, disk, written>>
  /\ UNCHANGED otherThanLoad

\* data_consolidation.py, load_data, lines 19-22.
LoadData ==
  /\ script = "data_consolidation.py" /\ lpc = "load"
  /\ {top_hiring_xlsx_path, executives_xlsx_path} \subseteq disk
  /\ lpc' = "loaded"
  /\ UNCHANGED <<script, disk, stdout, exit_status, written>>
  /\ UNCHANGED otherThanLoad

\* A consolidator whose main() catches the SystemExit of exit(1) as it catches
\* an error, and returns.
DataNotFoundCaught ==
  /\ script = "data_consolidation.py" /\ lpc = "load"
  /\ ~({top_hiring_xlsx_path, executives_xlsx_path} \subseteq disk)
  /\ stdout' = stdout \o
       <<"Processed data files not found. Please run the previous scripts first.",
         "Error in data consolidation: 1">>
  /\ exit_status' = 0
  /\ lpc' = "exited"
  /\ UNCHANGED <<script, disk, written>>
  /\ UNCHANGED otherThanLoad

\* Lines 23-25; exit(1) raises SystemExit, which main()'s except Exception
\* (line 621) lets through.
DataNotFound ==
  /\ script = "data_consolidation.py" /\ lpc = "load"
  /\ ~({top_hiring_xlsx_path, executives_xlsx_path} \subseteq disk)
  /\ stdout' = Append(stdout,
       "Processed data files not found. Please run the previous scripts first.")
  /\ exit_status' = 1
  /\ lpc' = "exited"
  /\ UNCHANGED <<script, disk, written>>
  /\ UNCHANGED otherThanLoad

\* The rest of the script's main() when nothing raises: the output files are
\* saved and the script ends.
RunStage ==
  /\ lpc = "loaded"
  /\ written' = OutputFiles(script)
  /\ stdout' = Append(stdout, "saved")
  /\ exit_status' = 0
  /\ lpc' = "done"
  /\ UNCHANGED <<script, disk>>
  /\ UNCHANGED otherThanLoad

\* The rest of the script's main() when a step raises before the files are
\* saved: the consolidator prints the error and returns, the other two scripts
\* end with the traceback.
StageRaises ==
  /\ lpc = "loaded"
  /\ stdout' = Append(stdout, "traceback")
  /\ exit_status' = IF script = "data_consolidation.py" THEN 0 ELSE 1
  /\ lpc' = "failed"
  /\ UNCHANGED <<script, disk, written>>
  /\ UNCHANGED otherThanLoad

LoadIdle ==
  /\ script = None
  /\ disk = {}
  /\ stdout = <<>>
  /\ exit_status = None
  /\ written = {}
  /\ lpc = "idle"

(***************************************************************************)
(* The specifications, one per stage.                                      *)
(***************************************************************************)
CollectInit == CollectStart /\ VerifyIdle /\ ContactIdle /\ RowIdle /\ ReportIdle
    /\ LoadIdle /\ EmailIdle /\ CareersIdle

CollectNext ==
  \/ Gather \/ GatherWriteFails \/ BuildFrame \/ DropDuplicates
  \/ EnrichAndSave \/ SaveExcelFails \/ SaveCsvFails

SpecCollect == CollectInit /\ [][CollectNext]_vars

VerifyInit == VerifyStart /\ CollectIdle /\ ContactIdle /\ RowIdle /\ ReportIdle
    /\ LoadIdle /\ EmailIdle /\ CareersIdle

VerifyNext ==
  \/ AddSourceColumns
  \/ CheckCareers \/ SkipCareers
  \/ CheckLinkedIn \/ SkipLinkedIn
  \/ CheckSeek \/ SeekRaises \/ SkipSeek
  \/ MarkNo \/ SetActivelyHiring \/ NextRow \/ SaveVerified

SpecVerify == VerifyInit /\ [][VerifyNext]_vars

ContactInit == ContactStart /\ CollectIdle /\ VerifyIdle /\ RowIdle /\ ReportIdle
    /\ LoadIdle /\ EmailIdle /\ CareersIdle

ContactNext ==
  \/ FilterHiring \/ FindExecutives \/ CombineExecutives
  \/ SkipExecutive \/ AddExecutive \/ NextCompany

SpecContact == ContactInit /\ [][ContactNext]_vars

RowInit == RowStart /\ CollectIdle /\ VerifyIdle /\ ContactIdle /\ ReportIdle
    /\ LoadIdle /\ EmailIdle /\ CareersIdle

RowNext == CalculateQuality \/ ScoreOpportunity \/ CreateOpportunityNote

SpecRow == RowInit /\ [][RowNext]_vars

ReportInit == ReportStart /\ CollectIdle /\ VerifyIdle /\ ContactIdle /\ RowIdle
    /\ LoadIdle /\ EmailIdle /\ CareersIdle

ReportNext ==
  \/ Merge \/ MergeRaises \/ PrepareFinal \/ CreateSummary \/ CreateSummaryRaises
  \/ ScoreOpportunities \/ TopOpportunities \/ SaveWorkbook \/ SaveRaises

SpecReport == ReportInit /\ [][ReportNext]_vars

EmailInit ==
  /\ EmailStart /\ CollectIdle /\ VerifyIdle /\ ContactIdle /\ RowIdle /\ ReportIdle
  /\ LoadIdle /\ CareersIdle

SpecEmail == EmailInit /\ [][GenerateEmail]_vars

LoadInit ==
  LoadStart /\ CollectIdle /\ VerifyIdle /\ ContactIdle /\ RowIdle /\ ReportIdle
    /\ EmailIdle /\ CareersIdle

LoadNext ==
  \/ LoadEnriched \/ EnrichedNotFound \/ LoadRaw \/ RawNotFound
  \/ LoadVerified \/ VerifiedNotFound \/ LoadData \/ DataNotFound
  \/ RunStage \/ StageRaises

SpecLoad == LoadInit /\ [][LoadNext]_vars

\* The entity tables of the four stages: each stage run on a table its
\* predecessor can leave, the Contact Finder up to the table main() saves as
\* top_hiring_companies.xlsx.
CareersInit ==
  /\ CareersStart /\ CollectIdle /\ VerifyIdle /\ ContactIdle /\ RowIdle /\ ReportIdle
  /\ LoadIdle /\ EmailIdle

SpecCareers == CareersInit /\ [][CheckCareersPage]_vars

TablesInit ==
  \/ CollectInit
  \/ VerifyInit
  \/ ContactStartOn(VerifiedTablesUpTo(MaxRows))
       /\ CollectIdle /\ VerifyIdle /\ RowIdle /\ ReportIdle /\ LoadIdle
       /\ EmailIdle /\ CareersIdle
  \/ ReportInit

\* The filter alone, on files of about FilterLimit companies.
FilterInit ==
  /\ ContactStartOn(LongTables)
  /\ CollectIdle /\ VerifyIdle /\ RowIdle /\ ReportIdle /\ LoadIdle
  /\ EmailIdle /\ CareersIdle

SpecFilter == FilterInit /\ [][FilterHiring]_vars

TablesNext == CollectNext \/ VerifyNext \/ FilterHiring \/ ReportNext

SpecTables == TablesInit /\ [][TablesNext]_vars

(***************************************************************************)
(* The claims.                                                             *)
(***************************************************************************)
\* The company_id values of a table, in row order.
IdsOf(df) == [i \in 1..Len(df) |-> df[i].company_id]

\* C1: after main() the ids of the saved entities are exactly 1..N, N the
\* number of saved entities: no duplicate and no gap.
C1_IdsContiguous ==
  cpc = "done" => {raw_xlsx[i].company_id : i \in 1..Len(raw_xlsx)} = 1..Len(raw_xlsx)

\* C2: a role flag that is 'Yes' stays 'Yes' through every later step of
\* verify_hiring_status (a later source's result, the final 'No' marking).
C2_YesIsKept ==
  [][\A i \in 1..Len(companies_df) :
       /\ companies_df[i].hiring_devops = "Yes" => companies_df'[i].hiring_devops = "Yes"
       /\ companies_df[i].hiring_developers = "Yes"
            => companies_df'[i].hiring_developers = "Yes"]_vars

\* C2's case: careers set hiring_devops, LinkedIn and Seek were then queried and
\* the row was marked, and hiring_devops is still 'Yes'.
C2_Witness ==
  /\ vpc = "row_done"
  /\ vqueried = <<"careers", "linkedin", "seek">>
  /\ vinput[vidx].hiring_devops = "Unknown"
  /\ companies_df[vidx].hiring_devops = "Yes"
  /\ companies_df[vidx].devops_source = companies_df[vidx].company_website \o "/careers"
  /\ companies_df[vidx].hiring_developers = "No"

StartedUnknown(i) ==
  vinput[i].hiring_devops = "Unknown" /\ vinput[i].hiring_developers = "Unknown"

\* C6: when a row whose flags started 'Unknown' has been processed, each role
\* flag is 'Yes' if a queried source reported the role and 'No' otherwise.
C6_FlagsAreTheReports ==
  (vpc = "row_done" /\ StartedUnknown(vidx)) =>
    /\ companies_df[vidx].hiring_devops = (IF vreported.devops THEN "Yes" ELSE "No")
    /\ companies_df[vidx].hiring_developers =
         (IF vreported.software_dev THEN "Yes" ELSE "No")

\* C6's case: all three sources queried, one role reported and the other not.
C6_Witness ==
  /\ vpc = "row_done"
  /\ StartedUnknown(vidx)
  /\ Len(vqueried) = 3
  /\ ~vreported.devops
  /\ vreported.software_dev
  /\ companies_df[vidx].hiring_devops = "No"
  /\ companies_df[vidx].hiring_developers = "Yes"

SourceRank(src) ==
  CASE src = "careers" -> 1 [] src = "linkedin" -> 2 [] src = "seek" -> 3

BothYes(row) == row.hiring_devops = "Yes" /\ row.hiring_developers = "Yes"

\* C7: the sources queried for a row are in the order careers, LinkedIn, Seek;
\* LinkedIn or Seek is queried only from a state where a flag of the row is not
\* 'Yes'; once a source has left both flags 'Yes' no source is queried.
C7_QueryOrder ==
  [][/\ \A a, b \in 1..Len(vqueried') :
          a < b => SourceRank(vqueried'[a]) < SourceRank(vqueried'[b])
     /\ (Len(vqueried') > Len(vqueried)
           /\ vqueried'[Len(vqueried')] \in {"linkedin", "seek"})
          => ~BothYes(companies_df[vidx])
     /\ (Len(vqueried') > Len(vqueried) /\ Len(vqueried) > 0)
          => ~BothYes(companies_df[vidx])]_vars

\* C7's case: careers left both flags 'Yes' and the row was finished with no
\* other source queried.
C7_Witness ==
  /\ vpc = "row_done"
  /\ StartedUnknown(vidx)
  /\ vqueried = <<"careers">>
  /\ BothYes(companies_df[vidx])

\* C5: the combined candidates of a company hold no two names equal ignoring
\* case, and a name both finders returned is kept from the LinkedIn finder.
C5_CombinedNamesDistinct ==
  epc = "process" =>
    /\ \A i, j \in 1..Len(all_execs) :
         i # j => LowerName(all_execs[i].name) # LowerName(all_execs[j].name)
    /\ \A i \in 1..Len(all_execs), w \in 1..Len(website_execs), l \in 1..Len(linkedin_execs) :
         (LowerName(all_execs[i].name) = LowerName(website_execs[w].name)
            /\ LowerName(website_execs[w].name) = LowerName(linkedin_execs[l].name))
         => all_execs[i].source = linkedin_execs[l].source

\* C3: the quality score of a row is in 0..5 and its rendering is five glyphs,
\* score filled stars followed by 5 - score empty stars.
C3_FiveStars ==
  rpc \in {"score", "note", "done"} =>
    /\ quality_score(merged_row) \in 0..5
    /\ Len(report_row["Data Quality"]) = 5
    /\ \A i \in 1..Len(report_row["Data Quality"]) :
         report_row["Data Quality"][i] =
           (IF i <= quality_score(merged_row) THEN "filled star" ELSE "empty star")

\* The points the claim gives a headcount.
HeadcountPoints(size) ==
  IF size = None \/ ParseFloat(size) = NaN THEN 0
  ELSE IF ParseFloat(size) > 10000 THEN 3
  ELSE IF ParseFloat(size) > 1000 THEN 2
  ELSE IF ParseFloat(size) > 100 THEN 1
  ELSE 0

YesCount(row) ==
  Cardinality({f \in {"hiring_devops", "hiring_developers"} : row[f] = "Yes"})

\* C9: the opportunity score is 3 for two 'Yes' flags or 1 for one, plus 1 for a
\* contact name, 2 for an email, 2 for a phone, and 3 / 2 / 1 for a headcount
\* above 10000 / 1000 / 100; it is between 0 and 11.
C9_ScoreIsTheSum ==
  rpc \in {"note", "done"} =>
    /\ report_row["Opportunity Score"] =
         (CASE YesCount(merged_row) = 2 -> 3 [] YesCount(merged_row) = 1 -> 1 [] OTHER -> 0)
         + (IF merged_row.executive_name # None THEN 1 ELSE 0)
         + (IF merged_row.email # None THEN 2 ELSE 0)
         + (IF merged_row.phone # None THEN 2 ELSE 0)
         + HeadcountPoints(merged_row.company_size)
    /\ report_row["Opportunity Score"] \in 0..11

\* C9's case: every condition fired, the score is 11.
C9_Witness ==
  /\ rpc = "done"
  /\ merged_row.hiring_devops = "Yes" /\ merged_row.hiring_developers = "Yes"
  /\ merged_row.executive_name # None /\ merged_row.email # None
  /\ merged_row.phone # None /\ merged_row.company_size = "10001.0"
  /\ report_row["Opportunity Score"] = 11

IsSuncorpExample(row) ==
  /\ row.company_name = <<"Suncorp", "Group">>
  /\ row.hiring_devops = "Yes" /\ row.hiring_developers = "Yes"
  /\ row.email = "jane.doe@suncorp.com.au"
  /\ row.phone = "+61 7 1234 5678"

HasFragment(notes, fragment) == \E i \in 1..Len(notes) : notes[i] = fragment

\* C10: the Suncorp Group example scores 3 + 2 + 2 for its flags, email and
\* phone (7 with no contact name and no headcount, and whatever those two add
\* otherwise), and its note has the both-roles and the complete-contact fragment.
C10_SuncorpExample ==
  (rpc = "done" /\ IsSuncorpExample(merged_row)) =>
    /\ report_row["Opportunity Score"]
         - (IF merged_row.executive_name # None THEN 1 ELSE 0)
         - HeadcountPoints(merged_row.company_size) = 3 + 2 + 2
    /\ HasFragment(report_row["Opportunity Notes"],
                   "Actively hiring for both DevOps and Software Developer roles")
    /\ HasFragment(report_row["Opportunity Notes"],
                   "Complete C-level contact information available")

\* C10's case: the example row with no contact name and no headcount.
C10_Witness ==
  /\ rpc = "done"
  /\ IsSuncorpExample(merged_row)
  /\ merged_row.executive_name = None
  /\ merged_row.company_size = None
  /\ report_row["Opportunity Score"] = 7

ContactsOf(id) ==
  {j \in 1..Len(report_executives_df) : report_executives_df[j].company_id = id}

MergedRowsOf(id) == {i \in 1..Len(merged_df) : merged_df[i].company_id = id}

\* C8: the merged frame has, for a company with no contact, one row whose
\* contact cells are all NaN, and for a company with k >= 1 contacts, k rows.
C8_LeftJoin ==
  fpc \in {"prepare", "score", "top", "done"} =>
    \A c \in 1..Len(report_companies_df) :
      LET id == report_companies_df[c].company_id
      IN  IF ContactsOf(id) = {}
          THEN /\ Cardinality(MergedRowsOf(id)) = 1
               /\ \A i \in MergedRowsOf(id) :
                    \A f \in {"executive_name", "executive_title", "linkedin_url_y",
                               "email", "phone"} : merged_df[i][f] = None
          ELSE Cardinality(MergedRowsOf(id)) = Cardinality(ContactsOf(id))

\* C8's case: a company with no contact and a company with two, merged.
C8_Witness ==
  /\ fpc = "prepare"
  /\ Len(report_companies_df) = 2
  /\ ContactsOf(report_companies_df[1].company_id) = {}
  /\ Cardinality(ContactsOf(report_companies_df[2].company_id)) = 2
  /\ Len(merged_df) = 3

ScoreOf(row) == row["Opportunity Score"]

\* The place of the row with this index label in opportunities_df.
PlaceOf(label) == CHOOSE i \in 1..Len(opportunities_df) : opportunities_df[i].index = label

\* C4: the top opportunities are at most 10 rows with distinct company names,
\* the highest-scoring names (all of them when there are fewer than 10), in
\* non-increasing order of score, rows of equal score in their original order.
C4_TopTen ==
  fpc = "done" =>
    LET top == top_opportunities
        names == {top[i]["Company Name"] : i \in 1..Len(top)}
        allNames == {opportunities_df[i]["Company Name"] : i \in 1..Len(opportunities_df)}
    IN  /\ Len(top) <= 10
        /\ \A i, j \in 1..Len(top) : i # j => top[i]["Company Name"] # top[j]["Company Name"]
        /\ Len(top) = Min(10, Cardinality(allNames))
        /\ \A i \in 1..Len(top) :
             \A k \in 1..Len(opportunities_df) :
               opportunities_df[k]["Company Name"] = top[i]["Company Name"]
                 => ScoreOf(opportunities_df[k]) <= ScoreOf(top[i])
        /\ \A i \in 1..Len(top) :
             \A k \in 1..Len(opportunities_df) :
               opportunities_df[k]["Company Name"] \notin names
                 => ScoreOf(opportunities_df[k]) <= ScoreOf(top[i])
        /\ \A i, j \in 1..Len(top) : i < j => ScoreOf(top[i]) >= ScoreOf(top[j])
        /\ \A i, j \in 1..Len(top) :
             (i < j /\ ScoreOf(top[i]) = ScoreOf(top[j]))
               => PlaceOf(top[i].index) < PlaceOf(top[j].index)
        /\ \A i \in 1..Len(top) :
             \A k \in 1..Len(opportunities_df) :
               (opportunities_df[k]["Company Name"] = top[i]["Company Name"]
                  /\ ScoreOf(opportunities_df[k]) = ScoreOf(top[i]))
               => PlaceOf(top[i].index) <= k

\* C11: a failure while processing one row does not abort the batch: no run
\* of the Status Checker ends with the exception out of main() and its output
\* not written.
C11_RowFailureIsContained == ~(vpc = "raised" /\ verified_xlsx = NoFile)

\* C12: when building the tables or the workbook fails in the Consolidator, the
\* exception is caught in main(), the stack trace is printed, and the error is
\* appended to a text log file.
C12_FailureIsLogged ==
  fpc = "failed" =>
    /\ HasFragment(report_console, "traceback")
    /\ report_error_log # NoFile

\* The rows of the contact table of the company the loop is at.
RowsOfCompany ==
  {i \in 1..Len(executives_df) :
     executives_df[i].company_id = hiring_companies_df[eidx].company_id}

\* C13: the placeholder contact never carries a derived email, and a contact
\* row has an email only if its company has a website.
C13_EmailOnlyForRealCandidates ==
  epc = "process" =>
    \A i \in RowsOfCompany :
      /\ executives_df[i].executive_name = Placeholder.name => executives_df[i].email = None
      /\ executives_df[i].email # None => hiring_companies_df[eidx].company_website # None

\* The inner loop has gone through every candidate of the company.
CandidatesDone == epc = "process" /\ xidx > Len(all_execs)

\* C14: a company for which both finders return nothing gets exactly one
\* contact row, the placeholder's name, title and source.
C14_PlaceholderRow ==
  (CandidatesDone /\ linkedin_execs = <<>> /\ website_execs = <<>>) =>
    /\ Cardinality(RowsOfCompany) = 1
    /\ \A i \in RowsOfCompany :
         /\ executives_df[i].executive_name = <<"Technology", "Decision", "Maker">>
         /\ executives_df[i].executive_title = "CTO or equivalent"
         /\ executives_df[i].source = "Placeholder - requires manual research"

\* C14's case: both finders returned nothing and the placeholder's row is there.
C14_Witness ==
  /\ CandidatesDone
  /\ linkedin_execs = <<>> /\ website_execs = <<>>
  /\ Len(executives_df) = 1
  /\ executives_df[1].executive_title = "CTO or equivalent"

\* C15: a candidate named 'Unknown' or with fewer than two name tokens never
\* gets a contact row, and a company whose only candidates are named 'Unknown'
\* gets no row and no placeholder.
C15_UnknownHasNoRow ==
  /\ \A i \in 1..Len(executives_df) :
       /\ executives_df[i].executive_name # <<"Unknown">>
       /\ Len(executives_df[i].executive_name) >= 2
  /\ (/\ CandidatesDone
      /\ linkedin_execs \o website_execs # <<>>
      /\ \A k \in 1..Len(linkedin_execs \o website_execs) :
           (linkedin_execs \o website_execs)[k].name = <<"Unknown">>)
     => /\ RowsOfCompany = {}
        /\ \A k \in 1..Len(all_execs) : all_execs[k] # Placeholder

\* C15's case: the only candidate is named 'Unknown' and the company has no row.
C15_Witness ==
  /\ CandidatesDone
  /\ Len(linkedin_execs) = 1 /\ linkedin_execs[1].name = <<"Unknown">>
  /\ website_execs = <<>>
  /\ executives_df = <<>>

(***************************************************************************)
(* Deduplication of the collected entities.                                *)
(***************************************************************************)
\* The company names of a table.
NamesOf(df) == {df[i].company_name : i \in 1..Len(df)}

\* The first entry of the concatenated lists that carries the name n.
FirstEntry(n) ==
  all_companies[CHOOSE i \in 1..Len(all_companies) :
                  /\ all_companies[i].company_name = n
                  /\ \A j \in 1..(i - 1) : all_companies[j].company_name # n]

\* C16: the saved table has no two entities with one company_name, holds every
\* name of the concatenated lists exactly once, and each entity has the industry,
\* country, data_source and website of the first entry listed under its name.
C16_KeepsFirstOccurrence ==
  cpc = "done" =>
    /\ \A i, j \in 1..Len(raw_xlsx) :
         i # j => raw_xlsx[i].company_name # raw_xlsx[j].company_name
    /\ NamesOf(raw_xlsx) = NamesOf(all_companies)
    /\ \A i \in 1..Len(raw_xlsx) :
         LET first == FirstEntry(raw_xlsx[i].company_name)
         IN  /\ raw_xlsx[i].industry = first.industry
             /\ raw_xlsx[i].country = first.country
             /\ raw_xlsx[i].data_source = first.data_source
             /\ raw_xlsx[i].company_website = first.company_website

\* C16's case: the table is saved and some name was listed twice, by two sources
\* that give it different fields.
C16_Witness ==
  /\ cpc = "done"
  /\ \E i, j \in 1..Len(all_companies) :
       /\ i < j
       /\ all_companies[i].company_name = all_companies[j].company_name
       /\ all_companies[i].data_source # all_companies[j].data_source
       /\ all_companies[i].country # all_companies[j].country

(***************************************************************************)
(* The table verify_hiring_status returns.                                 *)
(***************************************************************************)
\* verify_hiring_status has returned: its loop went through every row.
Verified == vpc \in {"done", "saved"}

\* C17: in the table verify_hiring_status returns, actively_hiring is 'Yes' for
\* the rows with hiring_devops or hiring_developers 'Yes' and 'No' for the others.
C17_ActivelyHiringIsEither ==
  Verified =>
    \A i \in 1..Len(companies_df) :
      /\ companies_df[i].actively_hiring \in {"Yes", "No"}
      /\ companies_df[i].actively_hiring = "Yes"
           <=> (companies_df[i].hiring_devops = "Yes"
                  \/ companies_df[i].hiring_developers = "Yes")

\* C17's case: the returned table has a row with exactly one role flag 'Yes'
\* and a row with none.
C17_Witness ==
  /\ Verified
  /\ \E i, j \in 1..Len(companies_df) :
       /\ companies_df[i].hiring_devops = "Yes"
       /\ companies_df[i].hiring_developers = "No"
       /\ companies_df[i].actively_hiring = "Yes"
       /\ companies_df[j].hiring_devops = "No"
       /\ companies_df[j].hiring_developers = "No"
       /\ companies_df[j].actively_hiring = "No"

\* The columns of a loaded row other than the three flags.
KeptColumns ==
  {"company_id", "company_name", "industry", "country", "company_website",
   "linkedin_url", "data_source", "last_verified"}

\* C20: verify_hiring_status keeps the rows of the table it was given, one for
\* one and in order, and changes none of their columns but the three flags; the
\* only columns it adds are devops_source and software_dev_source.
C20_OnlyFlagsChange ==
  /\ Len(companies_df) = Len(vinput)
  /\ \A i \in 1..Len(vinput) :
       /\ \A c \in KeptColumns : companies_df[i][c] = vinput[i][c]
       /\ DOMAIN companies_df[i] \ DOMAIN vinput[i]
            \subseteq {"devops_source", "software_dev_source"}
       /\ DOMAIN vinput[i] \subseteq DOMAIN companies_df[i]
  /\ vpc # "columns" =>
       \A i \in 1..Len(vinput) :
         DOMAIN companies_df[i] \ DOMAIN vinput[i]
           = {"devops_source", "software_dev_source"}

\* C20's case: the function returned a table in which it changed a flag.
C20_Witness ==
  /\ Verified
  /\ \E i \in 1..Len(vinput) :
       /\ vinput[i].hiring_devops = "Unknown"
       /\ companies_df[i].hiring_devops = "Yes"
       /\ companies_df[i].actively_hiring # vinput[i].actively_hiring

(***************************************************************************)
(* The entity tables across the stages.                                    *)
(***************************************************************************)
FlagValues == {"Yes", "No", "Unknown"}

\* The collector printed the message.
Printed(message) == \E i \in 1..Len(collect_stdout) : collect_stdout[i] = message

\* The flag columns, under the names the final sheet gives two of them.
FlagColumns ==
  {"actively_hiring", "hiring_devops", "hiring_developers",
   "Hiring DevOps", "Hiring Software Developers"}

\* Every flag column a table has holds a flag value in every row.
TriState(table) ==
  \A i \in 1..Len(table) :
    \A c \in (DOMAIN table[i]) \cap FlagColumns : table[i][c] \in FlagValues

\* Every row of the table has the three flags, with values in the set allowed.
ThreeFlagsIn(table, allowed) ==
  \A i \in 1..Len(table) :
    /\ {"actively_hiring", "hiring_devops", "hiring_developers"} \subseteq DOMAIN table[i]
    /\ table[i].actively_hiring \in allowed
    /\ table[i].hiring_devops \in allowed
    /\ table[i].hiring_developers \in allowed

\* The Contact Finder has filtered: hiring_companies_df is the table it saves.
Filtered == epc \notin {"idle", "filter"}

UniqueIds(table) ==
  \A i, j \in 1..Len(table) : i # j => table[i].company_id # table[j].company_id

\* Every row of the table is, in company_id and company_name, a row of from.
SameEntities(table, from) ==
  \A i \in 1..Len(table) :
    \E j \in 1..Len(from) :
      /\ table[i].company_id = from[j].company_id
      /\ table[i].company_name = from[j].company_name

\* C19: no two entities of a stage's table share a company_id, and an entity
\* keeps the id the Collector numbered its first entry with through the
\* Collector's later steps, the Status Checker, the Contact Finder's filter and
\* the Consolidator's join.
C19_IdsUniqueAndStable ==
  /\ cpc \in {"dedup", "enrich", "done"} =>
       /\ UniqueIds(collected_df)
       /\ \A i \in 1..Len(collected_df) :
            all_companies[collected_df[i].company_id].company_name
              = collected_df[i].company_name
  /\ cpc = "done" =>
       UniqueIds(raw_xlsx) /\ SameEntities(raw_xlsx, build_frame(all_companies))
  /\ UniqueIds(companies_df) /\ IdsOf(companies_df) = IdsOf(vinput)
  /\ vpc = "saved" =>
       UniqueIds(verified_xlsx) /\ IdsOf(verified_xlsx) = IdsOf(vinput)
  /\ Filtered =>
       UniqueIds(hiring_companies_df) /\ SameEntities(hiring_companies_df, all_companies_df)
  /\ fpc \notin {"idle", "merge", "failed"} =>
       /\ \A i \in 1..Len(merged_df) :
            \E j \in 1..Len(report_companies_df) :
              /\ merged_df[i].company_id = report_companies_df[j].company_id
              /\ merged_df[i].company_name = report_companies_df[j].company_name
       /\ \A j \in 1..Len(report_companies_df) :
            \E i \in 1..Len(merged_df) :
              merged_df[i].company_id = report_companies_df[j].company_id

\* C19's case: the Collector saved a table from which it had dropped a repeated
\* name that was listed before another company.
C19_Witness ==
  /\ cpc = "done"
  /\ Len(raw_xlsx) >= 2
  /\ \E i \in 1..Len(raw_xlsx) : raw_xlsx[i].company_id > i

(***************************************************************************)
(* The filter of the Contact Finder.                                       *)
(***************************************************************************)
\* The row is actively hiring for a role.
IsHiring(row) ==
  /\ row.actively_hiring = "Yes"
  /\ (row.hiring_devops = "Yes" \/ row.hiring_developers = "Yes")

\* The rows of the loaded file that are actively hiring for a role.
HiringRows == {i \in 1..Len(all_companies_df) : IsHiring(all_companies_df[i])}

\* C21: filter_actively_hiring_companies returns only rows of the file with
\* actively_hiring 'Yes' and a role flag 'Yes', each once; all of them when they
\* are fewer than 100, and never more than 100.
C21_FilterKeepsTheHiring ==
  Filtered =>
    /\ \A i \in 1..Len(hiring_companies_df) :
         /\ IsHiring(hiring_companies_df[i])
         /\ \E j \in HiringRows : all_companies_df[j] = hiring_companies_df[i]
    /\ UniqueIds(hiring_companies_df)
    /\ Len(hiring_companies_df) <= FilterLimit
    /\ Cardinality(HiringRows) < FilterLimit
         => \A j \in HiringRows :
              \E i \in 1..Len(hiring_companies_df) :
                hiring_companies_df[i] = all_companies_df[j]

\* C21's case: of more than 100 hiring companies of a file that also has others,
\* the filter returned 100.
C21_Witness ==
  /\ Filtered
  /\ Cardinality(HiringRows) > FilterLimit
  /\ Cardinality(HiringRows) < Len(all_companies_df)
  /\ Len(hiring_companies_df) = FilterLimit

\* C21's other case: all the hiring companies of a file that has fewer than 100.
C21_WitnessAll ==
  /\ Filtered
  /\ Cardinality(HiringRows) = FilterLimit - 1
  /\ Cardinality(HiringRows) < Len(all_companies_df)
  /\ Len(hiring_companies_df) = FilterLimit - 1

(***************************************************************************)
(* A stage started without its input files.                                *)
(***************************************************************************)
\* The input files the script cannot start without are not all there.
InputMissing ==
  CASE script = "hiring_verification.py" ->
         enriched_xlsx_path \notin disk /\ raw_xlsx_path \notin disk
    [] script = "contact_enrichment.py" -> verified_xlsx_path \notin disk
    [] script = "data_consolidation.py" ->
         top_hiring_xlsx_path \notin disk \/ executives_xlsx_path \notin disk
    [] OTHER -> FALSE

\* The message tells the user to run what comes before.
TellsToRunPrior(message) ==
  message \in
    {"Raw companies file not found. Please run company_research.py first.",
     "Hiring verified companies file not found. Please run hiring_verification.py first.",
     "Processed data files not found. Please run the previous scripts first."}

\* C22: a stage whose input file is missing prints a message that tells the user
\* to run the prior stage and exits with status 1, and it writes no output file.
C22_MissingInputIsFatal ==
  InputMissing =>
    /\ written = {}
    /\ lpc \in {"load", "load raw", "exited"}
    /\ lpc = "exited" =>
         /\ exit_status = 1
         /\ Len(stdout) > 0 /\ TellsToRunPrior(stdout[Len(stdout)])
    /\ lpc # "exited" => exit_status = None

\* C22's case: the Status Checker found neither file and has exited.
C22_Witness ==
  /\ script = "hiring_verification.py"
  /\ InputMissing
  /\ lpc = "exited"
  /\ Len(stdout) = 2

(***************************************************************************)
(* Write errors of the Collector.                                          *)
(***************************************************************************)
\* main() has returned.
Returned == cpc \in {"done", "failed"}

\* C23: when main() of the Collector has returned after an error in writing the
\* raw CSV snapshot, the Excel snapshot or the processed CSV, the error is in
\* data/raw/error_log.txt.
C23_WriteErrorIsLogged ==
  (/\ Returned
   /\ \/ Printed("Error writing to CSV data/raw/companies_raw.csv")
      \/ Printed("Error processing dataframe"))
    => error_log # NoFile

\* The part of C23 that holds: an error in writing the Excel snapshot or the
\* processed CSV is in the error file when main() has returned.
C23_FrameErrorIsLogged ==
  (Returned /\ Printed("Error processing dataframe")) => error_log # NoFile

(***************************************************************************)
(* The opportunity note against the opportunity score.                     *)
(***************************************************************************)
StandardNote == <<"Standard opportunity">>

\* C24: a scored row has the note 'Standard opportunity' only when its score is
\* 0, so that every row with a score above 0 has a note made of fragments for
\* the conditions that scored.
C24_StandardOnlyForZero ==
  rpc = "done" =>
    (report_row["Opportunity Notes"] = StandardNote => report_row["Opportunity Score"] = 0)

\* The part of C24 that holds: a row of score 0 has the note 'Standard
\* opportunity', and a fragment about hiring, contact or size is in the note
\* only of a row that scored for hiring, the email or the size.
C24_FragmentsHaveScored ==
  rpc = "done" =>
    LET notes == report_row["Opportunity Notes"]
        hiring == report_row["Hiring DevOps"] = "Yes"
                    \/ report_row["Hiring Software Developers"] = "Yes"
    IN  /\ report_row["Opportunity Score"] = 0 => notes = StandardNote
        /\ notes # StandardNote => report_row["Opportunity Score"] > 0
        /\ (\/ HasFragment(notes, "Actively hiring for both DevOps and Software Developer roles")
            \/ HasFragment(notes, "Currently seeking DevOps talent")
            \/ HasFragment(notes, "Actively recruiting Software Developers")) => hiring
        /\ (\/ HasFragment(notes, "Complete C-level contact information available")
            \/ HasFragment(notes, "Direct email contact available for decision maker"))
             => ~isna(report_row["C-Level Email"])

(***************************************************************************)
(* The address generate_email returns.                                     *)
(***************************************************************************)
\* The local part a template stands for, of lower-cased names.
Rendering(template, first, last) ==
  CASE template = "first.last@{}" -> first \o "." \o last
    [] template = "firstlast@{}" -> first \o last
    [] template = "first_last@{}" -> first \o "_" \o last
    [] template = "flast@{}" -> FirstLetter(first) \o last
    [] template = "first.l@{}" -> first \o "." \o FirstLetter(last)
    [] template = "f.last@{}" -> FirstLetter(first) \o "." \o last

\* The template the pattern is, formatted with the domain of the call; first.last
\* for no pattern and for any other pattern.
TemplateOf(args) ==
  IF \E t \in common_patterns : args.pattern = Formatted(t, args.domain)
  THEN CHOOSE t \in common_patterns : args.pattern = Formatted(t, args.domain)
  ELSE "first.last@{}"

\* C25: generate_email returns the same string for the same arguments: the
\* template of the pattern rendered with the lower-cased names at the domain, and
\* the first.last rendering for a missing or unrecognised pattern.
C25_EmailIsTheRendering ==
  \A i \in 1..Len(emails) :
    emails[i] = Rendering(TemplateOf(email_args), Lower(email_args.first_name),
                          Lower(email_args.last_name)) \o "@" \o email_args.domain

\* C25's case: two calls with the flast pattern of the domain returned jsmith at
\* the domain.
C25_Witness ==
  /\ Len(emails) = 2
  /\ email_args.pattern = Formatted("flast@{}", "suncorp.com.au")
  /\ email_args.domain = "suncorp.com.au"
  /\ emails[1] = "jsmith@suncorp.com.au"
  /\ emails[2] = "jsmith@suncorp.com.au"

(***************************************************************************)
(* The sources recorded for the two roles.                                 *)
(***************************************************************************)
\* What the job source src can return as its source for the row.
UrlsOf(row, src) ==
  CASE src = "careers" -> {row.company_website \o "/careers"}
    [] src = "linkedin" ->
         {check_linkedin_jobs(row.company_name, d, s).source :
            <<d, s>> \in (BOOLEAN \X BOOLEAN) \ {<<FALSE, FALSE>>}}
    [] src = "seek" -> {check_seek_jobs(row.company_name, row.country, TRUE, TRUE).source}

\* A step that records new as the source of a role does so for the row at hand,
\* for the source it has just queried, the first to report the role for the row.
FirstReport(i, new, reported, reportedNext) ==
  /\ i = vidx
  /\ Len(vqueried') = Len(vqueried) + 1
  /\ ~reported /\ reportedNext
  /\ new \in UrlsOf(companies_df[i], vqueried'[Len(vqueried')])

\* C26: the source recorded for a role is the one returned by the first of
\* careers page, LinkedIn and Seek that reported the role for the row, and no
\* later step changes it; when a row whose flags started 'Unknown' is done, a
\* role has a source recorded exactly when its flag is 'Yes'.
C26_FirstSourceIsRecorded ==
  [][vpc # "columns" =>
       /\ \A i \in 1..Len(companies_df) :
            LET old == companies_df[i]
                new == companies_df'[i]
            IN  /\ old.devops_source # None => new.devops_source = old.devops_source
                /\ old.software_dev_source # None
                     => new.software_dev_source = old.software_dev_source
                /\ (old.devops_source = None /\ new.devops_source # None)
                     => FirstReport(i, new.devops_source, vreported.devops, vreported'.devops)
                /\ (old.software_dev_source = None /\ new.software_dev_source # None)
                     => FirstReport(i, new.software_dev_source, vreported.software_dev,
                                    vreported'.software_dev)
       /\ (vpc = "row_done" /\ StartedUnknown(vidx)) =>
            /\ companies_df[vidx].devops_source # None
                 <=> companies_df[vidx].hiring_devops = "Yes"
            /\ companies_df[vidx].software_dev_source # None
                 <=> companies_df[vidx].hiring_developers = "Yes"]_vars

\* C26's case: a row that started 'Unknown' is done with the careers page
\* recorded for DevOps and LinkedIn, queried after it, for Software Developer.
C26_Witness ==
  /\ vpc = "row_done"
  /\ StartedUnknown(vidx)
  /\ Len(vqueried) >= 2
  /\ companies_df[vidx].devops_source \in UrlsOf(companies_df[vidx], "careers")
  /\ companies_df[vidx].software_dev_source \in UrlsOf(companies_df[vidx], "linkedin")

(***************************************************************************)
(* The careers page check and its two draws.                               *)
(***************************************************************************)
\* C27: in mock mode check_company_careers_page reports a role exactly when
\* its draw for the role came up true, whatever the company name and website.
C27_ReportIsTheDraw ==
  \A k \in 1..Len(careers_calls) :
    /\ careers_calls[k].result.has_devops = careers_calls[k].has_devops
    /\ careers_calls[k].result.has_software_dev = careers_calls[k].has_software_dev

\* What holds: a role drawn true is reported, and a role drawn false is
\* reported only for a company whose name holds a keyword of the role.
C27_ReportIsTheDrawOrTheName ==
  \A k \in 1..Len(careers_calls) :
    LET call == careers_calls[k]
        in_name == NameKeywords(careers_args.company_name)
    IN  /\ call.result.has_devops
             = (call.has_devops \/ in_name \cap job_keywords.devops # {})
        /\ call.result.has_software_dev
             = (call.has_software_dev \/ in_name \cap job_keywords.software_dev # {})
        /\ call.result.source
             = IF call.result.has_devops \/ call.result.has_software_dev
               THEN careers_args.company_url \o "/careers" ELSE None

(***************************************************************************)
(* The names clean_company_names yields.                                   *)
(***************************************************************************)
\* The last tokens the patterns strip.
Suffixes == UNION {patterns[k] : k \in 1..Len(patterns)}

EndsInSuffix(name) == Len(name) >= 2 /\ Lower(name[Len(name)]) \in Suffixes

\* C28: once the names are cleaned, no clean_company_name ends in a suffix the
\* patterns strip, and cleaning it again changes nothing.
C28_CleaningIsIdempotent ==
  fpc \notin {"merge", "failed"} =>
    \A i \in 1..Len(merged_df) :
      /\ ~EndsInSuffix(merged_df[i].clean_company_name)
      /\ clean_name(merged_df[i].clean_company_name) = merged_df[i].clean_company_name

\* What holds: a company's clean name is its name without some of its last
\* tokens, each of them a suffix of the patterns, and keeps the first token.
C28_CleaningStripsSuffixes ==
  fpc \notin {"merge", "failed"} =>
    \A i \in 1..Len(merged_df) :
      LET name == merged_df[i].company_name
          cleaned == merged_df[i].clean_company_name
      IN  /\ Len(cleaned) \in 1..Len(name)
          /\ cleaned = SubSeq(name, 1, Len(cleaned))
          /\ \A k \in Len(cleaned) + 1..Len(name) : Lower(name[k]) \in Suffixes

(***************************************************************************)
(* The summary of the report.                                              *)
(***************************************************************************)
\* C29: create_summary_data returns a summary table, one row per metric, for
\* every report table, the table with no company included.
C29_SummaryIsReturned ==
  [][fpc = "summary" => fpc' = "score" /\ Len(summary_df') = Len(metrics(final_df))]_vars

\* What holds: create_summary_data raises on the table with no company, and
\* returns the summary of every other table, each count a share of the total.
C29_SummaryUnlessEmpty ==
  [][fpc = "summary" =>
       IF Len(final_df) = 0
       THEN fpc' = "failed" /\ report_console' = ErrorOutput /\ summary_df' = <<>>
       ELSE /\ fpc' = "score"
            /\ Len(summary_df') = Len(metrics(final_df))
            /\ \A k \in 1..Len(summary_df') :
                 /\ summary_df'[k].Count \in 0..summary_df'[1].Count
                 /\ summary_df'[k].Percentage \in 0..1000]_vars

(***************************************************************************)
(* The contacts of a company in mock mode.                                 *)
(***************************************************************************)
\* C30: in mock mode the LinkedIn finder returns 1 to 3 executives and the
\* website finder 0 to 2, the placeholder is never among the candidates or the
\* contact rows, every company ends with 1 to 5 contact rows, and when
\* enrich_contacts returns every company it was given has a contact row.
C30_MockContactsOneToFive ==
  use_mock =>
    /\ \A i \in 1..Len(executives_df) : executives_df[i].source # Placeholder.source
    /\ epc \in {"combine", "process"} =>
         /\ Len(linkedin_execs) \in 1..3
         /\ Len(website_execs) \in 0..2
    /\ epc = "process" =>
         /\ Len(all_execs) \in 1..5
         /\ \A k \in 1..Len(all_execs) : all_execs[k] # Placeholder
    /\ CandidatesDone => Cardinality(RowsOfCompany) \in 1..5
    /\ epc = "done" =>
         \A c \in 1..Len(hiring_companies_df) :
           \E i \in 1..Len(executives_df) :
             executives_df[i].company_id = hiring_companies_df[c].company_id

\* C30's case: a company done in mock mode with five contact rows, three from
\* the LinkedIn finder and two from the website finder.
C30_Witness ==
  /\ use_mock
  /\ CandidatesDone
  /\ Len(linkedin_execs) = 3
  /\ Len(website_execs) = 2
  /\ Cardinality(RowsOfCompany) = 5

\* A company done in mock mode with one contact row.
C30_WitnessOne ==
  /\ use_mock
  /\ CandidatesDone
  /\ Cardinality(RowsOfCompany) = 1

====
